---------------------------- MODULE Spec2Model ----------------------------
(***************************************************************************)
(* A model of the red-teaming agent: its results pipeline                  *)
(* (src/src/results_processor.py), its configuration                       *)
(* (src/src/config_manager.py), its scan orchestrator                      *)
(* (src/src/red_team_agent.py) and its scan profiles (src/src/datasets.py).*)
(*                                                                         *)
(* Python values are tagged records, so that a missing key, a null and a   *)
(* wrong-typed field are different things, as they are to the code:        *)
(*   [t |-> "none"]              None                                      *)
(*   [t |-> "bool",  v |-> b]    True / False                              *)
(*   [t |-> "int",   v |-> n]    an int                                    *)
(*   [t |-> "float", v |-> h]    a float, held in hundredths (0.85 is 85)  *)
(*   [t |-> "str",   v |-> s]    a str                                     *)
(*   [t |-> "list",  v |-> q]    a list, q the sequence of its items       *)
(*   [t |-> "tuple", v |-> q]    a tuple                                   *)
(*   [t |-> "dict",  v |-> q]    a dict, q the sequence of its <<key,      *)
(*                               value>> pairs in insertion order          *)
(* A call ends in Return(value) or in Raise(exception name).               *)
(***************************************************************************)
EXTENDS Integers, Sequences, FiniteSets, TLC

VARIABLES
    results,    \* the results dictionary the caller holds
    call,       \* the last ResultsProcessor call: its name, arguments, outcome
    files,      \* the output directory: file name -> content (or NoFile)
    clock,      \* datetime.now(), in seconds
    environ,    \* os.environ: variable name -> its value (or Unset)
    config_data,\* what yaml.safe_load read from the config file (or NoConfigFile)
    config,     \* the Config object the program holds (None before construction)
    agent,      \* the RedTeamingAgent's fields credential and red_team_agent
    engine,     \* the scans the engine was asked for, oldest first
    warnings,   \* the warnings the orchestrator has emitted, oldest first
    _config,    \* function_app's module-level _config (None, or the Config)
    _agent,     \* function_app's module-level _agent (None, or an instance)
    instances,  \* the RedTeamingAgent instances function_app has constructed
    threads     \* each caller of get_red_team_agent: where it is, what it holds

configVars == <<environ, config_data, config>>
agentVars == <<agent, engine, warnings>>
appVars == <<_config, _agent, instances, threads>>
vars == <<results, call, files, clock, environ, config_data, config,
          agent, engine, warnings, _config, _agent, instances, threads>>

---------------------------------------------------------------------------
(* Bounds of the model.                                                    *)

MaxAttacks == 4
MaxOutcomes == 2
MaxEntries == 2
MaxClock == 1
MaxEnvLen == 3
MaxScans == 1
MaxUpperCase == 2

---------------------------------------------------------------------------
(* Python values.                                                          *)

PyNone == [t |-> "none"]
PyBool(b) == [t |-> "bool", v |-> b]
PyInt(n) == [t |-> "int", v |-> n]
PyFloat(h) == [t |-> "float", v |-> h]
PyStr(s) == [t |-> "str", v |-> s]
PyList(q) == [t |-> "list", v |-> q]
PyTuple(q) == [t |-> "tuple", v |-> q]
PyDict(q) == [t |-> "dict", v |-> q]

Return(x) == [k |-> "return", v |-> x]
Raise(e) == [k |-> "raise", exc |-> e]

\* A key a dict literal leaves out.
Absent == [t |-> "absent"]

RECURSIVE DropAbsent(_)
DropAbsent(q) ==
    IF q = <<>> THEN <<>>
    ELSE IF Head(q)[2] = Absent THEN DropAbsent(Tail(q))
    ELSE <<Head(q)>> \o DropAbsent(Tail(q))

\* The dict with the given <<name, value>> pairs, those with value Absent left out.
MkDict(q) == PyDict([i \in 1..Len(DropAbsent(q)) |->
                        <<PyStr(DropAbsent(q)[i][1]), DropAbsent(q)[i][2]>>])

IsDict(x) == x.t = "dict"
IsNum(x) == x.t \in {"int", "bool", "float"}

\* A number's value in hundredths (True is 1, False is 0).
NumH(x) ==
    CASE x.t = "int" -> x.v * 100
      [] x.t = "bool" -> (IF x.v THEN 100 ELSE 0)
      [] x.t = "float" -> x.v

\* bool(x)
Truthy(x) ==
    CASE x.t = "none" -> FALSE
      [] x.t = "bool" -> x.v
      [] x.t \in {"int", "float"} -> x.v # 0
      [] x.t = "str" -> x.v # ""
      [] x.t = "chars" -> Len(x.v) > 0
      [] x.t \in {"list", "tuple", "dict"} -> Len(x.v) > 0

HasKey(d, name) == \E i \in 1..Len(d.v) : d.v[i][1] = PyStr(name)

\* d.get(name, dflt) of a dict d.
Get(d, name, dflt) ==
    IF HasKey(d, name)
    THEN d.v[CHOOSE i \in 1..Len(d.v) : d.v[i][1] = PyStr(name)][2]
    ELSE dflt

\* n / d cut to an integer instead of rounded.
RoundDown(n, d) == n \div d

\* n / d rounded to the nearest integer, a tie going to the even one
\* (round() and the 'f' format both round half to even), for n >= 0, d > 0.
RoundHalfEven(n, d) ==
    LET q == n \div d
        r == n % d
    IN  IF 2 * r < d THEN q
        ELSE IF 2 * r > d THEN q + 1
        ELSE IF q % 2 = 0 THEN q ELSE q + 1

---------------------------------------------------------------------------
(* ResultsProcessor.calculate_asr                                          *)

\* calculate_asr's try block with total_attacks defaulting to 1.
calculate_asr_try_default1(res) ==
    IF ~IsDict(res) THEN Raise("AttributeError")
    ELSE LET scorecard == Get(res, "scorecard", PyDict(<<>>)) IN
    IF ~IsDict(scorecard) THEN Raise("AttributeError")
    ELSE LET total_attacks == Get(scorecard, "total_attacks", PyInt(1))
             successful_attacks == Get(scorecard, "successful_attacks", PyInt(0))
         IN
    IF IsNum(total_attacks) /\ NumH(total_attacks) = 0 THEN Return(PyFloat(0))
    ELSE IF ~(IsNum(total_attacks) /\ IsNum(successful_attacks))
         THEN Raise("TypeError")
    ELSE Return(PyFloat(RoundHalfEven(NumH(successful_attacks) * 10000,
                                      NumH(total_attacks))))

\* The body of the try block.
calculate_asr_try(res) ==
    IF ~IsDict(res) THEN Raise("AttributeError")
    ELSE LET scorecard == Get(res, "scorecard", PyDict(<<>>)) IN
    IF ~IsDict(scorecard) THEN Raise("AttributeError")
    ELSE LET total_attacks == Get(scorecard, "total_attacks", PyInt(0))
             successful_attacks == Get(scorecard, "successful_attacks", PyInt(0))
         IN
    IF IsNum(total_attacks) /\ NumH(total_attacks) = 0 THEN Return(PyFloat(0))
    ELSE IF ~(IsNum(total_attacks) /\ IsNum(successful_attacks))
         THEN Raise("TypeError")
    ELSE Return(PyFloat(RoundHalfEven(NumH(successful_attacks) * 10000,
                                      NumH(total_attacks))))

\* calculate_asr without its except clause.
calculate_asr_propagating(res) == calculate_asr_try(res)

calculate_asr(res) ==
    LET r == calculate_asr_try(res)
    IN  IF r.k = "raise" THEN Return(PyFloat(0)) ELSE r

---------------------------------------------------------------------------
(* ResultsProcessor.get_high_risk_findings                                 *)

\* The items a for loop (or str.join) draws from x; None and numbers are not iterable.
\* A dict yields its keys.
IsIterable(x) == x.t \in {"list", "tuple", "dict"}
Iter(x) ==
    CASE x.t \in {"list", "tuple"} -> x.v
      [] x.t = "dict" -> [i \in 1..Len(x.v) |-> x.v[i][1]]

\* The dict appended to high_risk for one outcome.
Finding(result, risk_score) ==
    PyDict(<< <<PyStr("risk_category"), Get(result, "risk_category", PyNone)>>,
              <<PyStr("attack_strategy"), Get(result, "attack_strategy", PyNone)>>,
              <<PyStr("complexity"), Get(result, "complexity", PyNone)>>,
              <<PyStr("risk_score"), risk_score>>,
              <<PyStr("prompt"), Get(result, "prompt", PyNone)>>,
              <<PyStr("response"), Get(result, "response", PyNone)>> >>)

\* The loop with "risk_score > threshold".
RECURSIVE high_risk_loop_strict(_, _, _)
high_risk_loop_strict(items, threshold, high_risk) ==
    IF items = <<>> THEN Return(PyList(high_risk))
    ELSE LET result == Head(items) IN
    IF ~IsDict(result) THEN Raise("AttributeError")
    ELSE IF ~Truthy(Get(result, "successful", PyBool(FALSE)))
         THEN high_risk_loop_strict(Tail(items), threshold, high_risk)
    ELSE LET risk_score == Get(result, "risk_score", PyInt(0)) IN
    IF ~(IsNum(risk_score) /\ IsNum(threshold)) THEN Raise("TypeError")
    ELSE IF NumH(risk_score) > NumH(threshold)
         THEN high_risk_loop_strict(Tail(items), threshold,
                                    Append(high_risk, Finding(result, risk_score)))
    ELSE high_risk_loop_strict(Tail(items), threshold, high_risk)

\* The loop reading result["risk_score"], which raises KeyError on a missing score.
RECURSIVE high_risk_loop_subscript(_, _, _)
high_risk_loop_subscript(items, threshold, high_risk) ==
    IF items = <<>> THEN Return(PyList(high_risk))
    ELSE LET result == Head(items) IN
    IF ~IsDict(result) THEN Raise("AttributeError")
    ELSE IF ~Truthy(Get(result, "successful", PyBool(FALSE)))
         THEN high_risk_loop_subscript(Tail(items), threshold, high_risk)
    ELSE IF ~HasKey(result, "risk_score") THEN Raise("KeyError")
    ELSE LET risk_score == Get(result, "risk_score", PyInt(0)) IN
    IF ~(IsNum(risk_score) /\ IsNum(threshold)) THEN Raise("TypeError")
    ELSE IF NumH(risk_score) >= NumH(threshold)
         THEN high_risk_loop_subscript(Tail(items), threshold,
                                       Append(high_risk, Finding(result, risk_score)))
    ELSE high_risk_loop_subscript(Tail(items), threshold, high_risk)

\* The for loop over all_results, high_risk being the list built so far.
RECURSIVE high_risk_loop(_, _, _)
high_risk_loop(items, threshold, high_risk) ==
    IF items = <<>> THEN Return(PyList(high_risk))
    ELSE LET result == Head(items) IN
    IF ~IsDict(result) THEN Raise("AttributeError")
    ELSE IF ~Truthy(Get(result, "successful", PyBool(FALSE)))
         THEN high_risk_loop(Tail(items), threshold, high_risk)
    ELSE LET risk_score == Get(result, "risk_score", PyInt(0)) IN
    IF ~(IsNum(risk_score) /\ IsNum(threshold)) THEN Raise("TypeError")
    ELSE IF NumH(risk_score) >= NumH(threshold)
         THEN high_risk_loop(Tail(items), threshold,
                             Append(high_risk, Finding(result, risk_score)))
    ELSE high_risk_loop(Tail(items), threshold, high_risk)

\* The body of the try block.
get_high_risk_findings_try(res, threshold) ==
    IF ~IsDict(res) THEN Raise("AttributeError")
    ELSE LET all_results == Get(res, "results", PyList(<<>>)) IN
    IF ~IsIterable(all_results) THEN Raise("TypeError")
    ELSE high_risk_loop(Iter(all_results), threshold, <<>>)

\* get_high_risk_findings without its except clause.
get_high_risk_findings_propagating(res, threshold) ==
    get_high_risk_findings_try(res, threshold)

get_high_risk_findings(res, threshold) ==
    LET r == get_high_risk_findings_try(res, threshold)
    IN  IF r.k = "raise" THEN Return(PyList(<<>>)) ELSE r

---------------------------------------------------------------------------
(* ResultsProcessor.generate_summary_report                                *)
(*                                                                         *)
(* The report is a str of newline-ended lines, held as                     *)
(* [t |-> "text", v |-> the sequence of its lines]; it opens with an empty *)
(* line, as the f-string opens with a newline.                             *)

PyText(lines) == [t |-> "text", v |-> lines]

\* Two decimal digits of a number below 100.
TwoDigits(n) == IF n < 10 THEN "0" \o ToString(n) ELSE ToString(n)

\* repr() of a non-negative float held in hundredths: 2500 is "25.0", 3333 is "33.33".
FloatRepr(h) ==
    ToString(h \div 100) \o "." \o
    (IF h % 10 = 0 THEN ToString((h % 100) \div 10) ELSE TwoDigits(h % 100))

\* format(x, ".1f") instead: one decimal.
Format1f(h) == ToString(h \div 100) \o "." \o ToString((h % 100) \div 10)

\* format(x, ".2f") of a non-negative number held in hundredths: 4000 is "40.00".
Format2f(h) == ToString(h \div 100) \o "." \o TwoDigits(h % 100)

\* str(x), as an f-string field renders x.
Str(x) ==
    CASE x.t = "none" -> "None"
      [] x.t = "bool" -> (IF x.v THEN "True" ELSE "False")
      [] x.t = "int" -> ToString(x.v)
      [] x.t = "float" -> FloatRepr(x.v)
      [] x.t = "str" -> x.v

\* str.upper() on the names the model's breakdowns use.
upper(s) ==
    CASE s = "violence" -> "VIOLENCE"
      [] s = "sexual" -> "SEXUAL"
      [] s = "hate_unfairness" -> "HATE_UNFAIRNESS"
      [] s = "self_harm" -> "SELF_HARM"
      [] s = "low" -> "LOW"
      [] s \in {"medium", "Medium"} -> "MEDIUM"
      [] s \in {"high", "HIGH"} -> "HIGH"

\* sep.join of a sequence of str values.
RECURSIVE JoinStrs(_, _)
JoinStrs(q, sep) ==
    IF q = <<>> THEN ""
    ELSE IF Len(q) = 1 THEN q[1].v
    ELSE q[1].v \o sep \o JoinStrs(Tail(q), sep)

\* ', '.join(x): x must be iterable and every item a str.
join(x) ==
    IF ~IsIterable(x) THEN Raise("TypeError")
    ELSE IF \E i \in 1..Len(Iter(x)) : Iter(x)[i].t # "str" THEN Raise("TypeError")
    ELSE Return(JoinStrs(Iter(x), ", "))

Rule80 == "================================================================================"

\* The 'Attack Strategies' field of the report (line 112).
\* The same expression without its "if ... else 'All'".
attack_strategies_unguarded(parameters) ==
    join(Get(parameters, "attack_strategies", PyList(<<PyStr("All")>>)))

attack_strategies_field(parameters) ==
    IF Truthy(Get(parameters, "attack_strategies", PyNone))
    THEN join(Get(parameters, "attack_strategies", PyList(<<PyStr("All")>>)))
    ELSE Return("All")

\* The f-string the report starts as (lines 103-122).
report_head(scorecard, parameters, asr) ==
    IF ~IsDict(parameters) THEN Raise("AttributeError")
    ELSE LET risk_categories == join(Get(parameters, "risk_categories", PyList(<<>>)))
             attack_strategies == attack_strategies_field(parameters)
         IN
    IF risk_categories.k = "raise" THEN risk_categories
    ELSE IF attack_strategies.k = "raise" THEN attack_strategies
    ELSE IF ~IsDict(scorecard) THEN Raise("AttributeError")
    ELSE Return(<<
        "",
        Rule80,
        "RED TEAMING SCAN SUMMARY REPORT",
        Rule80,
        "",
        "Scan Configuration:",
        "------------------",
        "Risk Categories: " \o risk_categories.v,
        "Attack Objectives per Category: "
            \o Str(Get(parameters, "num_objectives", PyStr("N/A"))),
        "Attack Strategies: " \o attack_strategies.v,
        "",
        "Overall Results:",
        "---------------",
        "Total Attacks: " \o Str(Get(scorecard, "total_attacks", PyInt(0))),
        "Successful Attacks: " \o Str(Get(scorecard, "successful_attacks", PyInt(0))),
        "Attack Success Rate (ASR): " \o Str(asr) \o "%",
        "",
        "Results by Risk Category:",
        "------------------------" >>)

\* The entry's block computing "successful / total * 100" whatever total is.
breakdown_block_unguarded(name, stats) ==
    IF ~IsDict(stats) THEN Raise("AttributeError")
    ELSE LET total == Get(stats, "total", PyInt(0))
             successful == Get(stats, "successful", PyInt(0))
         IN
    IF ~(IsNum(total) /\ IsNum(successful)) THEN Raise("TypeError")
    ELSE IF NumH(total) = 0 THEN Raise("ZeroDivisionError")
    ELSE IF name.t # "str" THEN Raise("AttributeError")
    ELSE Return(<<
             "",
             upper(name.v) \o ":",
             "  Total Attacks: " \o Str(total),
             "  Successful: " \o Str(successful),
             "  ASR: " \o Format2f(RoundHalfEven(NumH(successful) * 10000, NumH(total)))
                 \o "%" >>)

\* The entry's block reading stats["total"] and stats["successful"], which
\* raise KeyError on a missing key.
breakdown_block_subscript(name, stats) ==
    IF ~IsDict(stats) THEN Raise("AttributeError")
    ELSE IF ~(HasKey(stats, "total") /\ HasKey(stats, "successful")) THEN Raise("KeyError")
    ELSE LET total == Get(stats, "total", PyInt(0))
             successful == Get(stats, "successful", PyInt(0))
         IN
    IF ~IsNum(total) THEN Raise("TypeError")
    ELSE IF NumH(total) > 0 /\ ~IsNum(successful) THEN Raise("TypeError")
    ELSE IF name.t # "str" THEN Raise("AttributeError")
    ELSE LET entry_asr == IF NumH(total) > 0
                          THEN RoundHalfEven(NumH(successful) * 10000, NumH(total))
                          ELSE 0
         IN Return(<<
                "",
                upper(name.v) \o ":",
                "  Total Attacks: " \o Str(total),
                "  Successful: " \o Str(successful),
                "  ASR: " \o Format2f(entry_asr) \o "%" >>)

\* The lines one breakdown entry adds (lines 127-134 and 142-149).
breakdown_block(name, stats) ==
    IF ~IsDict(stats) THEN Raise("AttributeError")
    ELSE LET total == Get(stats, "total", PyInt(0))
             successful == Get(stats, "successful", PyInt(0))
         IN
    IF ~IsNum(total) THEN Raise("TypeError")
    ELSE IF NumH(total) > 0 /\ ~IsNum(successful) THEN Raise("TypeError")
    ELSE IF name.t # "str" THEN Raise("AttributeError")
    ELSE LET entry_asr == IF NumH(total) > 0
                          THEN RoundHalfEven(NumH(successful) * 10000, NumH(total))
                          ELSE 0
         IN Return(<<
                "",
                upper(name.v) \o ":",
                "  Total Attacks: " \o Str(total),
                "  Successful: " \o Str(successful),
                "  ASR: " \o Format2f(entry_asr) \o "%" >>)

\* A for loop over breakdown.items(), report being the lines so far.
RECURSIVE breakdown_loop(_, _)
breakdown_loop(items, report) ==
    IF items = <<>> THEN Return(report)
    ELSE LET block == breakdown_block(Head(items)[1], Head(items)[2]) IN
    IF block.k = "raise" THEN block
    ELSE breakdown_loop(Tail(items), report \o block.v)

\* The body of the try block.
generate_summary_report_try(res) ==
    IF ~IsDict(res) THEN Raise("AttributeError")
    ELSE LET scorecard == Get(res, "scorecard", PyDict(<<>>))
             parameters == Get(res, "parameters", PyDict(<<>>))
             asr == calculate_asr(res)
         IN
    IF asr.k = "raise" THEN asr
    ELSE LET head == report_head(scorecard, parameters, asr.v) IN
    IF head.k = "raise" THEN head
    ELSE LET risk_breakdown == Get(scorecard, "by_risk_category", PyDict(<<>>)) IN
    IF ~IsDict(risk_breakdown) THEN Raise("AttributeError")
    ELSE LET by_risk == breakdown_loop(risk_breakdown.v, head.v) IN
    IF by_risk.k = "raise" THEN by_risk
    ELSE LET complexity_breakdown == Get(scorecard, "by_complexity", PyDict(<<>>)) IN
    IF ~IsDict(complexity_breakdown) THEN Raise("AttributeError")
    ELSE LET by_complexity ==
                 breakdown_loop(complexity_breakdown.v,
                                by_risk.v \o << "", "Results by Attack Complexity:",
                                                "----------------------------" >>)
         IN
    IF by_complexity.k = "raise" THEN by_complexity
    ELSE Return(PyText(by_complexity.v \o << "", Rule80 >>))

ErrorReport == PyStr("Error generating summary report")

\* generate_summary_report without its except clause.
generate_summary_report_propagating(res) == generate_summary_report_try(res)

generate_summary_report(res) ==
    LET r == generate_summary_report_try(res)
    IN  IF r.k = "raise" THEN Return(ErrorReport) ELSE r

---------------------------------------------------------------------------
(* The results dictionaries the calls are made on: what the engine may     *)
(* hand back, well-formed or not.  Each family varies one part of the      *)
(* dictionary and keeps the rest as in the repository's test fixture.      *)

\* Every sequence of at most n items of S.
SeqsUpTo(n, S) == UNION {[1..m -> S] : m \in 0..n}

WrongTyped == {PyNone, PyStr("n/a")}

\* total_attacks and successful_attacks: absent, a count, or wrong-typed.
AttackCounts ==
    {PyInt(n) : n \in 0..MaxAttacks} \cup {PyInt(25), PyInt(100)}
        \cup WrongTyped \cup {Absent}

FixtureParameters ==
    MkDict(<< <<"num_objectives", PyInt(25)>>,
              <<"risk_categories", PyList(<<PyStr("violence"), PyStr("sexual"),
                                            PyStr("hate_unfairness"), PyStr("self_harm")>>)>>,
              <<"attack_strategies", PyList(<<>>)>> >>)

FixtureOutcome ==
    MkDict(<< <<"successful", PyBool(TRUE)>>,
              <<"risk_category", PyStr("violence")>>,
              <<"attack_strategy", PyStr("jailbreak")>>,
              <<"complexity", PyStr("high")>>,
              <<"risk_score", PyFloat(85)>>,
              <<"prompt", PyStr("test prompt")>>,
              <<"response", PyStr("test response")>> >>)

MkResults(scorecard, parameters, outcomes) ==
    MkDict(<< <<"scorecard", scorecard>>, <<"parameters", parameters>>,
              <<"results", outcomes>> >>)

MkScorecard(total, successful, by_risk_category, by_complexity) ==
    MkDict(<< <<"total_attacks", total>>, <<"successful_attacks", successful>>,
              <<"by_risk_category", by_risk_category>>,
              <<"by_complexity", by_complexity>> >>)

TotalsInputs ==
    {MkResults(MkScorecard(t, s, Absent, Absent), FixtureParameters,
               PyList(<<FixtureOutcome>>)) : t \in AttackCounts, s \in AttackCounts}
    \cup {MkResults(sc, FixtureParameters, PyList(<<FixtureOutcome>>)) :
              sc \in WrongTyped \cup {Absent}}
    \cup WrongTyped

\* One attack outcome: a dict whose successful and risk_score vary, or no dict at all.
OutcomeOptions ==
    [shape : {"dict"},
     successful : {PyBool(TRUE), PyBool(FALSE), Absent},
     risk_score : {PyFloat(30), PyFloat(50), PyFloat(85), Absent}]
    \cup [shape : {"dict"}, successful : {PyBool(TRUE)}, risk_score : WrongTyped]
    \cup [shape : {"none"}, successful : {Absent}, risk_score : {Absent}]

\* The i-th outcome of a list; its prompt tells it from the others.
MkOutcome(i, opt) ==
    IF opt.shape = "none" THEN PyNone
    ELSE MkDict(<< <<"successful", opt.successful>>,
                   <<"risk_category", PyStr("violence")>>,
                   <<"attack_strategy", PyStr("jailbreak")>>,
                   <<"complexity", PyStr("high")>>,
                   <<"risk_score", opt.risk_score>>,
                   <<"prompt", PyStr("prompt " \o ToString(i))>>,
                   <<"response", PyStr("response " \o ToString(i))>> >>)

OutcomesInputs ==
    {MkResults(MkScorecard(PyInt(100), PyInt(25), Absent, Absent), FixtureParameters,
               PyList([i \in 1..Len(q) |-> MkOutcome(i, q[i])])) :
         q \in SeqsUpTo(MaxOutcomes, OutcomeOptions)}
    \cup {MkResults(MkScorecard(PyInt(100), PyInt(25), Absent, Absent),
                    FixtureParameters, o) : o \in {PyNone, PyInt(3), Absent}}

\* One breakdown entry's stats: a dict whose total and successful vary, or no dict.
RiskStats ==
    {MkDict(<< <<"total", PyInt(25)>>, <<"successful", PyInt(10)>> >>),
     MkDict(<< <<"total", PyInt(3)>>, <<"successful", PyInt(1)>> >>),
     MkDict(<< <<"total", PyInt(0)>>, <<"successful", PyInt(0)>> >>),
     MkDict(<< <<"successful", PyInt(2)>> >>),
     MkDict(<< <<"total", PyStr("n/a")>>, <<"successful", PyInt(1)>> >>),
     MkDict(<< <<"total", PyInt(4)>>, <<"successful", PyNone>> >>),
     PyNone}

ComplexityStats ==
    {MkDict(<< <<"total", PyInt(50)>>, <<"successful", PyInt(15)>> >>),
     MkDict(<< <<"total", PyInt(0)>> >>),
     PyStr("n/a")}

RiskNames == <<"violence", "sexual", "hate_unfairness", "self_harm">>
ComplexityNames == <<"low", "Medium", "HIGH", "low">>

\* A breakdown mapping: absent, null, or a dict of at most MaxEntries entries.
Breakdowns(names, stats) ==
    {Absent, PyNone}
    \cup {PyDict([i \in 1..Len(q) |-> <<PyStr(names[i]), q[i]>>]) :
              q \in SeqsUpTo(MaxEntries, stats)}

FixtureComplexity ==
    PyDict(<< <<PyStr("low"), MkDict(<< <<"total", PyInt(50)>>,
                                        <<"successful", PyInt(15)>> >>)>> >>)

FixtureRisk ==
    PyDict(<< <<PyStr("violence"), MkDict(<< <<"total", PyInt(25)>>,
                                             <<"successful", PyInt(10)>> >>)>> >>)

\* Every risk breakdown beside a fixed complexity breakdown, and the reverse.
BreakdownInputs ==
    {MkResults(MkScorecard(PyInt(100), PyInt(25), r, c), FixtureParameters,
               PyList(<<FixtureOutcome>>)) :
         r \in Breakdowns(RiskNames, RiskStats) \cup
               {PyDict(<< <<PyInt(7), MkDict(<< <<"total", PyInt(1)>> >>)>> >>)},
         c \in {Absent, FixtureComplexity}}
    \cup
    {MkResults(MkScorecard(PyInt(100), PyInt(25), r, c), FixtureParameters,
               PyList(<<FixtureOutcome>>)) :
         r \in {Absent, FixtureRisk},
         c \in Breakdowns(ComplexityNames, ComplexityStats)}

StrategyValues ==
    {Absent, PyNone, PyList(<<>>), PyList(<<PyStr("base64")>>),
     PyList(<<PyStr("base64"), PyStr("rot13")>>),
     PyList(<<PyStr("rot13"), PyStr("base64")>>),
     PyInt(3), PyList(<<PyInt(1)>>)}

CategoryValues ==
    {Absent, PyNone, PyList(<<PyStr("violence"), PyStr("self_harm")>>)}

ParametersInputs ==
    {MkResults(MkScorecard(PyInt(100), PyInt(25), Absent, Absent),
               MkDict(<< <<"num_objectives", n>>, <<"risk_categories", c>>,
                         <<"attack_strategies", a>> >>),
               PyList(<<FixtureOutcome>>)) :
         n \in {Absent, PyInt(25), PyNone}, c \in CategoryValues, a \in StrategyValues}
    \cup {MkResults(MkScorecard(PyInt(100), PyInt(25), Absent, Absent), p,
                    PyList(<<FixtureOutcome>>)) : p \in WrongTyped \cup {Absent}}

ResultsInputs == TotalsInputs \cup OutcomesInputs \cup BreakdownInputs \cup ParametersInputs

\* threshold: omitted (the default, 0.5), a score, or wrong-typed.
DefaultThreshold == PyFloat(50)
Thresholds == {Absent, PyInt(0), PyFloat(30), PyFloat(80), PyNone}

---------------------------------------------------------------------------
(* The calls a holder of a ResultsProcessor makes.                         *)

NoCall == [op |-> "none"]
EmptyDir == [p \in {} |-> PyNone]

\* No configuration has been read and no orchestrator has been made.
NoConfig ==
    /\ environ = [n \in {} |-> PyNone]
    /\ config_data = PyNone
    /\ config = PyNone
NoAgent ==
    /\ agent = PyNone
    /\ engine = <<>>
    /\ warnings = <<>>

\* function_app has not been loaded.
NoApp ==
    /\ _config = PyNone
    /\ _agent = PyNone
    /\ instances = <<>>
    /\ threads = <<>>

Init ==
    /\ results \in ResultsInputs
    /\ call = NoCall
    /\ files = EmptyDir
    /\ clock = 0
    /\ NoConfig
    /\ NoAgent
    /\ NoApp

\* A derivation method that empties the dictionary it was given.
results_after_clearing(op, res) ==
    IF op = "get_high_risk_findings" THEN PyDict(<<>>) ELSE res

\* The caller's results object after the call of a derivation method:
\* calculate_asr, generate_summary_report and get_high_risk_findings only
\* read it (.get, .items, iteration), build their answers in new objects and
\* keep nothing on self (results_processor.py lines 63-193).
results_after(op, res) == res

CalculateAsr ==
    /\ call' = [op |-> "calculate_asr", args |-> <<results>>,
                out |-> calculate_asr(results)]
    /\ results' = results_after("calculate_asr", results)
    /\ UNCHANGED <<files, clock, configVars, agentVars, appVars>>

GenerateSummaryReport ==
    /\ call' = [op |-> "generate_summary_report", args |-> <<results>>,
                out |-> generate_summary_report(results)]
    /\ results' = results_after("generate_summary_report", results)
    /\ UNCHANGED <<files, clock, configVars, agentVars, appVars>>

GetHighRiskFindings ==
    \E threshold \in Thresholds :
        /\ call' = [op |-> "get_high_risk_findings", args |-> <<results, threshold>>,
                    out |-> get_high_risk_findings(results,
                                IF threshold = Absent THEN DefaultThreshold
                                ELSE threshold)]
        /\ results' = results_after("get_high_risk_findings", results)
        /\ UNCHANGED <<files, clock, configVars, agentVars, appVars>>

Next == CalculateAsr \/ GenerateSummaryReport \/ GetHighRiskFindings

Spec == Init /\ [][Next]_vars

---------------------------------------------------------------------------
(* json.dump and json.load (lines 45 and 61).                              *)
(*                                                                         *)
(* A JSON document is the tree of what json.dump writes:                   *)
(*   [j |-> "null"], [j |-> "true"], [j |-> "false"],                      *)
(*   [j |-> "number", real |-> b, v |-> n]   b: the literal has a fraction *)
(*                                           (25.0 and not 25), n then in  *)
(*                                           hundredths                    *)
(*   [j |-> "string", v |-> s]                                             *)
(*   [j |-> "array",  v |-> items]                                         *)
(*   [j |-> "object", v |-> <<name, value>> pairs], every name a string    *)

\* The name json.dump writes for a dict key: a str as it is, a number, a bool
\* or None by its JSON literal.
json_key(k) ==
    CASE k.t = "str" -> k.v
      [] k.t = "int" -> ToString(k.v)
      [] k.t = "float" -> FloatRepr(k.v)
      [] k.t = "bool" -> (IF k.v THEN "true" ELSE "false")
      [] k.t = "none" -> "null"

\* Whether json.dump can write x: every dict key in it is a str, int, float,
\* bool or None (any other key is a TypeError).
RECURSIVE Serializable(_)
Serializable(x) ==
    CASE x.t \in {"none", "bool", "int", "float", "str"} -> TRUE
      [] x.t \in {"list", "tuple"} -> \A i \in 1..Len(x.v) : Serializable(x.v[i])
      [] x.t = "dict" ->
            \A i \in 1..Len(x.v) :
                /\ x.v[i][1].t \in {"str", "int", "float", "bool", "none"}
                /\ Serializable(x.v[i][2])

\* The document json.dump writes for x.
RECURSIVE json_dump(_)
json_dump(x) ==
    CASE x.t = "none" -> [j |-> "null"]
      [] x.t = "bool" -> (IF x.v THEN [j |-> "true"] ELSE [j |-> "false"])
      [] x.t = "int" -> [j |-> "number", real |-> FALSE, v |-> x.v]
      [] x.t = "float" -> [j |-> "number", real |-> TRUE, v |-> x.v]
      [] x.t = "str" -> [j |-> "string", v |-> x.v]
      [] x.t \in {"list", "tuple"} ->
            [j |-> "array", v |-> [i \in 1..Len(x.v) |-> json_dump(x.v[i])]]
      [] x.t = "dict" ->
            [j |-> "object",
             v |-> [i \in 1..Len(x.v) |->
                       <<json_key(x.v[i][1]), json_dump(x.v[i][2])>>]]

\* d[k] = v on the pairs of a dict: a repeated key keeps its place and takes
\* the new value.
SetItem(q, k, v) ==
    IF \E i \in 1..Len(q) : q[i][1] = k
    THEN [i \in 1..Len(q) |-> IF q[i][1] = k THEN <<k, v>> ELSE q[i]]
    ELSE Append(q, <<k, v>>)

\* The value json.load builds from a document.
RECURSIVE json_load(_)
RECURSIVE object_pairs(_, _)
object_pairs(members, q) ==
    IF members = <<>> THEN q
    ELSE object_pairs(Tail(members),
                      SetItem(q, PyStr(Head(members)[1]), json_load(Head(members)[2])))

json_load(d) ==
    CASE d.j = "null" -> PyNone
      [] d.j = "true" -> PyBool(TRUE)
      [] d.j = "false" -> PyBool(FALSE)
      [] d.j = "number" -> (IF d.real THEN PyFloat(d.v) ELSE PyInt(d.v))
      [] d.j = "string" -> PyStr(d.v)
      [] d.j = "array" -> PyList([i \in 1..Len(d.v) |-> json_load(d.v[i])])
      [] d.j = "object" -> PyDict(object_pairs(d.v, <<>>))

---------------------------------------------------------------------------
(* ResultsProcessor.save_results, load_results, save_summary_report.       *)
(*                                                                         *)
(* A file holds [kind |-> "json", doc |-> a document], the text of a       *)
(* report ([kind |-> "text", v |-> it]), or what json.dump had written     *)
(* when it raised ([kind |-> "partial"]).                                  *)

OutputDir == "outputs"

\* datetime.now().strftime("%Y%m%d_%H%M%S"), now counted in seconds from
\* midnight of 1 January 2025 (less than a minute of them).
strftime(now) == "20250101_0000" \o TwoDigits(now)

\* str(self.output_dir / filename)
PathOf(filename) == OutputDir \o "/" \o filename

\* fs with content written at path.
Written(fs, path, content) ==
    [q \in DOMAIN fs \cup {path} |-> IF q = path THEN content ELSE fs[q]]

\* save_results catching the failure of open() and returning the path.
save_results_caught(res, filename, now, fs, open_ok) ==
    LET name == IF filename = PyNone
                THEN "red_team_results_" \o strftime(now) \o ".json"
                ELSE filename.v
        filepath == PathOf(name)
    IN  IF ~open_ok THEN [out |-> Return(PyStr(filepath)), files |-> fs]
        ELSE IF ~Serializable(res)
             THEN [out |-> Raise("TypeError"),
                   files |-> Written(fs, filepath, [kind |-> "partial"])]
        ELSE [out |-> Return(PyStr(filepath)),
              files |-> Written(fs, filepath, [kind |-> "json", doc |-> json_dump(res)])]

\* save_results: the call's outcome and the files it leaves; open_ok is
\* whether open(filepath, 'w') succeeds.
save_results(res, filename, now, fs, open_ok) ==
    LET name == IF filename = PyNone
                THEN "red_team_results_" \o strftime(now) \o ".json"
                ELSE filename.v
        filepath == PathOf(name)
    IN  IF ~open_ok THEN [out |-> Raise("OSError"), files |-> fs]
        ELSE IF ~Serializable(res)
             THEN [out |-> Raise("TypeError"),
                   files |-> Written(fs, filepath, [kind |-> "partial"])]
        ELSE [out |-> Return(PyStr(filepath)),
              files |-> Written(fs, filepath, [kind |-> "json", doc |-> json_dump(res)])]

\* load_results returning only the "scorecard" member of what it read.
load_results_scorecard_only(filepath, fs, open_ok) ==
    IF filepath \notin DOMAIN fs THEN Raise("FileNotFoundError")
    ELSE IF ~open_ok THEN Raise("OSError")
    ELSE IF fs[filepath].kind # "json" THEN Raise("JSONDecodeError")
    ELSE IF ~IsDict(json_load(fs[filepath].doc)) THEN Raise("AttributeError")
    ELSE Return(Get(json_load(fs[filepath].doc), "scorecard", PyNone))

\* load_results: the call's outcome.
load_results(filepath, fs, open_ok) ==
    IF filepath \notin DOMAIN fs THEN Raise("FileNotFoundError")
    ELSE IF ~open_ok THEN Raise("OSError")
    ELSE IF fs[filepath].kind # "json" THEN Raise("JSONDecodeError")
    ELSE Return(json_load(fs[filepath].doc))

\* save_summary_report: the call's outcome and the files it leaves.
save_summary_report(res, filename, now, fs, open_ok) ==
    LET name == IF filename = PyNone
                THEN "red_team_report_" \o strftime(now) \o ".txt"
                ELSE filename.v
        filepath == PathOf(name)
        report == generate_summary_report(res)
    IN  IF report.k = "raise" THEN [out |-> report, files |-> fs]
        ELSE IF ~open_ok THEN [out |-> Raise("OSError"), files |-> fs]
        ELSE [out |-> Return(PyStr(filepath)),
              files |-> Written(fs, filepath, [kind |-> "text", v |-> report.v])]

---------------------------------------------------------------------------
(* Saving and loading: the results dictionaries that are saved, and the    *)
(* calls that write and read the output directory.                         *)

\* The repository's test fixture, whole.
FixtureResults ==
    MkResults(
        MkScorecard(PyInt(100), PyInt(25),
            PyDict(<< <<PyStr("violence"), MkDict(<< <<"total", PyInt(25)>>,
                                                     <<"successful", PyInt(10)>> >>)>>,
                      <<PyStr("sexual"), MkDict(<< <<"total", PyInt(25)>>,
                                                   <<"successful", PyInt(5)>> >>)>>,
                      <<PyStr("hate_unfairness"), MkDict(<< <<"total", PyInt(25)>>,
                                                            <<"successful", PyInt(7)>> >>)>>,
                      <<PyStr("self_harm"), MkDict(<< <<"total", PyInt(25)>>,
                                                      <<"successful", PyInt(3)>> >>)>> >>),
            PyDict(<< <<PyStr("low"), MkDict(<< <<"total", PyInt(50)>>,
                                                <<"successful", PyInt(15)>> >>)>>,
                      <<PyStr("medium"), MkDict(<< <<"total", PyInt(30)>>,
                                                   <<"successful", PyInt(7)>> >>)>>,
                      <<PyStr("high"), MkDict(<< <<"total", PyInt(20)>>,
                                                 <<"successful", PyInt(3)>> >>)>> >>)),
        FixtureParameters,
        PyList(<<FixtureOutcome>>))

\* Lists of outcomes that differ in their length and order.
SavedOutcomes ==
    LET a == [shape |-> "dict", successful |-> PyBool(TRUE), risk_score |-> PyFloat(30)]
        b == [shape |-> "dict", successful |-> PyBool(FALSE), risk_score |-> PyFloat(85)]
    IN  {PyList([i \in 1..Len(q) |-> MkOutcome(i, q[i])]) :
             q \in {<<>>, <<a>>, <<a, b>>, <<b, a>>}}

\* Well-formed scorecards, and values json.dump cannot write back as they
\* are: a key that is no str, a tuple, a key it refuses.
PersistInputs ==
    {FixtureResults, PyDict(<<>>), PyNone}
    \cup {MkResults(MkScorecard(PyInt(100), PyInt(25), FixtureRisk, FixtureComplexity),
                    FixtureParameters, o) : o \in SavedOutcomes}
    \cup {MkResults(MkScorecard(PyNone, PyStr("n/a"), Absent, Absent), PyNone, Absent),
          MkResults(MkScorecard(PyInt(1), PyInt(1),
                                PyDict(<< <<PyInt(7), MkDict(<< <<"total", PyInt(1)>> >>)>> >>),
                                Absent),
                    FixtureParameters, PyList(<<>>)),
          MkResults(MkScorecard(PyInt(1), PyInt(1),
                                PyDict(<< <<PyInt(1), PyStr("x")>>, <<PyStr("1"), PyStr("y")>> >>),
                                Absent),
                    FixtureParameters, PyList(<<>>)),
          MkResults(MkScorecard(PyInt(1), PyInt(1), Absent, Absent),
                    MkDict(<< <<"risk_categories",
                                PyTuple(<<PyStr("violence"), PyStr("sexual")>>)>> >>),
                    PyList(<<>>)),
          MkResults(MkScorecard(PyInt(1), PyInt(1),
                                PyDict(<< <<PyTuple(<<PyStr("violence"), PyStr("low")>>),
                                            MkDict(<< <<"total", PyInt(1)>> >>)>> >>),
                                Absent),
                    FixtureParameters, PyList(<<>>))}

\* filename: omitted (None: a name made from the clock) or given.
FileNames == {PyNone, PyStr("scan.json")}

\* The paths load_results is called on: a file that is there, or one that is not.
LoadPaths == DOMAIN files \cup {PathOf("missing.json")}

InitPersist ==
    /\ results \in PersistInputs
    /\ call = NoCall
    /\ files = EmptyDir
    /\ clock = 0
    /\ NoConfig
    /\ NoAgent
    /\ NoApp

SaveResults ==
    \E filename \in FileNames, open_ok \in BOOLEAN :
        LET r == save_results(results, filename, clock, files, open_ok) IN
        /\ call' = [op |-> "save_results", args |-> <<results, filename>>,
                    open_ok |-> open_ok, out |-> r.out]
        /\ files' = r.files
        /\ UNCHANGED <<results, clock, configVars, agentVars, appVars>>

LoadResults ==
    \E filepath \in LoadPaths, open_ok \in BOOLEAN :
        /\ call' = [op |-> "load_results", args |-> <<filepath>>, open_ok |-> open_ok,
                    out |-> load_results(filepath, files, open_ok)]
        /\ UNCHANGED <<results, files, clock, configVars, agentVars, appVars>>

SaveSummaryReport ==
    \E filename \in FileNames, open_ok \in BOOLEAN :
        LET r == save_summary_report(results, filename, clock, files, open_ok) IN
        /\ call' = [op |-> "save_summary_report", args |-> <<results, filename>>,
                    open_ok |-> open_ok, out |-> r.out]
        /\ files' = r.files
        /\ UNCHANGED <<results, clock, configVars, agentVars, appVars>>

\* A second passes.
Tick ==
    /\ clock < MaxClock
    /\ clock' = clock + 1
    /\ UNCHANGED <<results, call, files, configVars, agentVars, appVars>>

NextPersist == SaveResults \/ LoadResults \/ SaveSummaryReport \/ Tick

SpecPersist == InitPersist /\ [][NextPersist]_vars

---------------------------------------------------------------------------
(* Properties of calculate_asr and get_high_risk_findings.                 *)

\* The scorecard of a results dict (an empty dict when it has none).
ScorecardOf(res) == Get(res, "scorecard", PyDict(<<>>))

\* res is a dict whose scorecard has total_attacks 0, or no total_attacks.
ZeroTotal(res) ==
    /\ IsDict(res)
    /\ IsDict(ScorecardOf(res))
    /\ \/ ~HasKey(ScorecardOf(res), "total_attacks")
       \/ Get(ScorecardOf(res), "total_attacks", Absent) = PyInt(0)

\* C1: on a scorecard whose total_attacks is 0 or missing, calculate_asr
\* returns exactly 0.0, whatever successful_attacks is, and does not raise.
C1_ZeroTotalIsZero ==
    (call.op = "calculate_asr" /\ ZeroTotal(results))
        => call.out = Return(PyFloat(0))

\* calculate_asr has answered for total_attacks 0 or missing and a
\* successful_attacks that is not zero (a count, or not even a number).
C1_Witness ==
    /\ call.op = "calculate_asr"
    /\ ZeroTotal(results)
    /\ Get(ScorecardOf(results), "successful_attacks", Absent)
           \in {PyInt(2), PyStr("n/a")}
    /\ call.out = Return(PyFloat(0))

\* res is a dict whose scorecard counts total_attacks > 0 and successful_attacks
\* as ints.
CountedTotals(res) ==
    /\ IsDict(res)
    /\ IsDict(ScorecardOf(res))
    /\ Get(ScorecardOf(res), "total_attacks", Absent).t = "int"
    /\ Get(ScorecardOf(res), "successful_attacks", PyInt(0)).t = "int"
    /\ Get(ScorecardOf(res), "total_attacks", Absent).v > 0

\* C2: for total_attacks > 0 calculate_asr returns successful / total * 100
\* rounded to 2 decimals: a float whose hundredths h are the integer nearest to
\* 10000 * successful / total; 25 successful of 100 gives 25.0.
C2_AsrIsRoundedPercentage ==
    (call.op = "calculate_asr" /\ CountedTotals(results)) =>
        LET t == Get(ScorecardOf(results), "total_attacks", Absent).v
            s == Get(ScorecardOf(results), "successful_attacks", PyInt(0)).v
        IN  /\ call.out.k = "return"
            /\ call.out.v.t = "float"
            /\ 2 * (call.out.v.v * t - 10000 * s) <= t
            /\ 2 * (10000 * s - call.out.v.v * t) <= t
            /\ (t = 100 /\ s = 25) => call.out.v = PyFloat(2500)

\* calculate_asr has answered 66.67 for 2 successful attacks of 3: a value
\* that rounding, and not cutting, produces.
C2_Witness ==
    /\ call.op = "calculate_asr"
    /\ CountedTotals(results)
    /\ Get(ScorecardOf(results), "total_attacks", Absent) = PyInt(3)
    /\ Get(ScorecardOf(results), "successful_attacks", Absent) = PyInt(2)
    /\ call.out = Return(PyFloat(6667))

\* The outcomes of a results dict, when they are a list.
OutcomesOf(res) == Get(res, "results", PyList(<<>>)).v

\* The threshold a get_high_risk_findings call ran with.
ThresholdOf(c) == IF c.args[2] = Absent THEN DefaultThreshold ELSE c.args[2]

\* An attack outcome as the data model has it: a dict whose successful, when
\* present, is a bool and whose risk_score, when present, is a number.
WellFormedOutcome(o) ==
    /\ IsDict(o)
    /\ Get(o, "successful", PyBool(FALSE)).t = "bool"
    /\ IsNum(Get(o, "risk_score", PyInt(0)))

WellFormedOutcomes(res) ==
    /\ IsDict(res)
    /\ Get(res, "results", PyList(<<>>)).t = "list"
    /\ \A i \in 1..Len(OutcomesOf(res)) : WellFormedOutcome(OutcomesOf(res)[i])

\* Outcome o is successful with a risk score (0 when it has none) of at least t.
Qualifies(o, t) ==
    /\ Get(o, "successful", PyBool(FALSE)) = PyBool(TRUE)
    /\ NumH(Get(o, "risk_score", PyInt(0))) >= NumH(t)

\* Finding f is the projection of outcome o.
FindingOf(f, o) ==
    /\ IsDict(f)
    /\ Len(f.v) = 6
    /\ \A name \in {"risk_category", "attack_strategy", "complexity", "prompt",
                    "response"} : Get(f, name, Absent) = Get(o, name, PyNone)
    /\ Get(f, "risk_score", Absent) = Get(o, "risk_score", PyInt(0))

\* The j-th smallest member of a set of numbers.
Nth(S, j) == CHOOSE i \in S : Cardinality({m \in S : m <= i}) = j

\* C3: get_high_risk_findings(results, t) returns one finding per outcome that
\* is successful with risk_score >= t, no other finding, and the findings in
\* the order their outcomes have in the input.
C3_FindingsAreTheQualifyingOutcomesInOrder ==
    (/\ call.op = "get_high_risk_findings"
     /\ WellFormedOutcomes(results)
     /\ IsNum(ThresholdOf(call))) =>
        LET outs == OutcomesOf(results)
            hits == {i \in 1..Len(outs) : Qualifies(outs[i], ThresholdOf(call))}
        IN  /\ call.out.k = "return"
            /\ call.out.v.t = "list"
            /\ Len(call.out.v.v) = Cardinality(hits)
            /\ \A j \in 1..Cardinality(hits) :
                   FindingOf(call.out.v.v[j], outs[Nth(hits, j)])

\* Two findings have come back in input order although the second scores
\* higher than the first, the first scoring exactly the threshold.
C3_Witness ==
    /\ call.op = "get_high_risk_findings"
    /\ WellFormedOutcomes(results)
    /\ call.out.k = "return"
    /\ Len(call.out.v.v) = 2
    /\ Get(call.out.v.v[1], "prompt", Absent) = PyStr("prompt 1")
    /\ Get(call.out.v.v[1], "risk_score", Absent) = ThresholdOf(call)
    /\ Get(call.out.v.v[2], "risk_score", Absent) = PyFloat(85)

\* Outcome o is successful and has no risk_score.
Unscored(o) ==
    /\ IsDict(o)
    /\ Get(o, "successful", PyBool(FALSE)) = PyBool(TRUE)
    /\ ~HasKey(o, "risk_score")

\* C4: a successful outcome with no risk_score counts as scoring 0: under the
\* default threshold 0.5, or any threshold > 0, no finding is made of it, and
\* its missing score does not fail the extraction: the scored outcomes that
\* qualify beside it are still found.
C4_UnscoredOutcomeNeverQualifies ==
    (/\ call.op = "get_high_risk_findings"
     /\ WellFormedOutcomes(results)
     /\ IsNum(ThresholdOf(call))
     /\ NumH(ThresholdOf(call)) > 0) =>
        LET outs == OutcomesOf(results) IN
        /\ call.out.k = "return"
        /\ \A i \in 1..Len(outs) :
               /\ Unscored(outs[i]) =>
                      \A j \in 1..Len(call.out.v.v) :
                          Get(call.out.v.v[j], "prompt", Absent)
                              # Get(outs[i], "prompt", PyNone)
               /\ (~Unscored(outs[i]) /\ Qualifies(outs[i], ThresholdOf(call))) =>
                      \E j \in 1..Len(call.out.v.v) :
                          FindingOf(call.out.v.v[j], outs[i])

\* Under the default threshold, a successful outcome without a score was
\* passed over and the scored outcome after it was found.
C4_Witness ==
    /\ call.op = "get_high_risk_findings"
    /\ call.args[2] = Absent
    /\ WellFormedOutcomes(results)
    /\ Len(OutcomesOf(results)) = 2
    /\ Unscored(OutcomesOf(results)[1])
    /\ call.out.k = "return"
    /\ Len(call.out.v.v) = 1
    /\ Get(call.out.v.v[1], "prompt", Absent) = PyStr("prompt 2")

---------------------------------------------------------------------------
(* Properties of generate_summary_report.                                  *)

\* The call returned a report, not the error string.
Rendered(c) ==
    /\ c.op = "generate_summary_report"
    /\ c.out.k = "return"
    /\ c.out.v.t = "text"

ParametersOf(res) == Get(res, "parameters", PyDict(<<>>))

\* The entries of a breakdown of the scorecard, none when the key is missing.
EntriesOf(res, dimension) == Get(ScorecardOf(res), dimension, PyDict(<<>>)).v

\* A breakdown entry the report can render: a str name and a stats dict whose
\* total and successful, when present, are ints.
WellFormedEntry(e) ==
    /\ e[1].t = "str"
    /\ IsDict(e[2])
    /\ Get(e[2], "total", PyInt(0)).t = "int"
    /\ Get(e[2], "successful", PyInt(0)).t = "int"

WellFormedBreakdown(res, dimension) ==
    /\ IsDict(Get(ScorecardOf(res), dimension, PyDict(<<>>)))
    /\ \A i \in 1..Len(EntriesOf(res, dimension)) :
           WellFormedEntry(EntriesOf(res, dimension)[i])

\* A list of str values.
StrList(x) == x.t = "list" /\ \A i \in 1..Len(x.v) : x.v[i].t = "str"

\* A results dict with everything the report reads in its documented shape.
WellFormedForReport(res) ==
    /\ IsDict(res)
    /\ IsDict(ScorecardOf(res))
    /\ IsDict(ParametersOf(res))
    /\ StrList(Get(ParametersOf(res), "risk_categories", PyList(<<>>)))
    /\ \/ Get(ParametersOf(res), "attack_strategies", PyNone) = PyNone
       \/ StrList(Get(ParametersOf(res), "attack_strategies", PyNone))
    /\ Get(ParametersOf(res), "num_objectives", PyInt(0)).t = "int"
    /\ Get(ScorecardOf(res), "total_attacks", PyInt(0)).t = "int"
    /\ Get(ScorecardOf(res), "successful_attacks", PyInt(0)).t = "int"
    /\ WellFormedBreakdown(res, "by_risk_category")
    /\ WellFormedBreakdown(res, "by_complexity")

\* The names of the model's breakdown entries, in capitals.
ExpectedUpper(name) ==
    CASE name \in {"violence"} -> "VIOLENCE"
      [] name \in {"sexual"} -> "SEXUAL"
      [] name \in {"hate_unfairness"} -> "HATE_UNFAIRNESS"
      [] name \in {"self_harm"} -> "SELF_HARM"
      [] name \in {"low"} -> "LOW"
      [] name \in {"Medium"} -> "MEDIUM"
      [] name \in {"HIGH"} -> "HIGH"

\* successful / total * 100 with two decimals, for the model's entries.
ExpectedEntryAsr(total, successful) ==
    CASE total = 0 -> "0.00"
      [] total = 25 /\ successful = 10 -> "40.00"
      [] total = 3 /\ successful = 1 -> "33.33"
      [] total = 50 /\ successful = 15 -> "30.00"

\* Lines b+1 .. b+5 of L are the block of entry e.
BlockAt(L, b, e) ==
    LET total == Get(e[2], "total", PyInt(0)).v
        successful == Get(e[2], "successful", PyInt(0)).v
    IN  /\ L[b + 1] = ""
        /\ L[b + 2] = ExpectedUpper(e[1].v) \o ":"
        /\ L[b + 3] = "  Total Attacks: " \o ToString(total)
        /\ L[b + 4] = "  Successful: " \o ToString(successful)
        /\ L[b + 5] = "  ASR: " \o ExpectedEntryAsr(total, successful) \o "%"

\* The test fixture's totals with violence {total 25, successful 10} first.
IsExample(res) ==
    /\ WellFormedForReport(res)
    /\ Get(ScorecardOf(res), "total_attacks", Absent) = PyInt(100)
    /\ Get(ScorecardOf(res), "successful_attacks", Absent) = PyInt(25)
    /\ Len(EntriesOf(res, "by_risk_category")) >= 1
    /\ EntriesOf(res, "by_risk_category")[1] = FixtureRisk.v[1]

\* C5: a report has its sections in a fixed order: the configuration, the
\* overall totals with 'Attack Success Rate (ASR): <calculate_asr value>%', one
\* block per by_risk_category entry (name in capitals, total, successful, ASR
\* with two decimals), then one block per by_complexity entry; for totals
\* 100 / 25 and violence {25, 10} it holds 'Attack Success Rate (ASR): 25.0%'
\* and a VIOLENCE block with 'ASR: 40.00%'.
C5_ReportSectionsInFixedOrder ==
    /\ (call.op = "generate_summary_report" /\ WellFormedForReport(results))
           => Rendered(call)
    /\ Rendered(call) =>
        LET L == call.out.v.v
            risk == EntriesOf(results, "by_risk_category")
            complexity == EntriesOf(results, "by_complexity")
            n == Len(risk)
            m == Len(complexity)
        IN  /\ Len(L) = 24 + 5 * (n + m)
            /\ L[3] = "RED TEAMING SCAN SUMMARY REPORT"
            /\ L[6] = "Scan Configuration:"
            /\ L[12] = "Overall Results:"
            /\ L[16] = "Attack Success Rate (ASR): "
                           \o Str(calculate_asr(results).v) \o "%"
            /\ L[18] = "Results by Risk Category:"
            /\ \A i \in 1..n : BlockAt(L, 19 + 5 * (i - 1), risk[i])
            /\ L[19 + 5 * n + 2] = "Results by Attack Complexity:"
            /\ \A i \in 1..m : BlockAt(L, 22 + 5 * n + 5 * (i - 1), complexity[i])
            /\ L[Len(L)] = Rule80
            /\ IsExample(results) =>
                   /\ L[16] = "Attack Success Rate (ASR): 25.0%"
                   /\ L[21] = "VIOLENCE:"
                   /\ L[24] = "  ASR: 40.00%"

\* The example's report has been rendered, with a complexity block after the
\* VIOLENCE block.
C5_Witness ==
    /\ Rendered(call)
    /\ IsExample(results)
    /\ Len(EntriesOf(results, "by_complexity")) >= 1
    /\ call.out.v.v[16] = "Attack Success Rate (ASR): 25.0%"
    /\ call.out.v.v[24] = "  ASR: 40.00%"
    /\ call.out.v.v[29] = "LOW:"

\* The 'Attack Strategies' line for the strategies the model's inputs hold.
ExpectedStrategies(a) ==
    CASE a \in {Absent, PyNone, PyList(<<>>)} -> "Attack Strategies: All"
      [] a = PyList(<<PyStr("base64")>>) -> "Attack Strategies: base64"
      [] a = PyList(<<PyStr("base64"), PyStr("rot13")>>)
             -> "Attack Strategies: base64, rot13"
      [] a = PyList(<<PyStr("rot13"), PyStr("base64")>>)
             -> "Attack Strategies: rot13, base64"

\* C6: the 'Attack Strategies' line reads 'All' whenever
\* parameters.attack_strategies is absent, null or an empty list, and otherwise
\* the strategies joined by ', ' in their given order.
C6_StrategiesLineAllOrJoined ==
    /\ (call.op = "generate_summary_report" /\ WellFormedForReport(results))
           => Rendered(call)
    /\ Rendered(call) =>
           call.out.v.v[10] =
               ExpectedStrategies(Get(ParametersOf(results), "attack_strategies", Absent))

\* A report on parameters whose attack_strategies is null reads 'All'.
C6_Witness ==
    /\ Rendered(call)
    /\ HasKey(ParametersOf(results), "attack_strategies")
    /\ Get(ParametersOf(results), "attack_strategies", Absent) = PyNone
    /\ call.out.v.v[10] = "Attack Strategies: All"

\* C7: a missing by_risk_category or by_complexity gives a normal report with
\* no block for that dimension, and an entry whose total is 0 or missing is
\* reported with ASR 0 instead of failing on the division.
C7_MissingOrZeroBreakdownTolerated ==
    (call.op = "generate_summary_report" /\ WellFormedForReport(results)) =>
        LET L == call.out.v.v
            risk == EntriesOf(results, "by_risk_category")
            complexity == EntriesOf(results, "by_complexity")
            n == Len(risk)
        IN  /\ Rendered(call)
            /\ ~HasKey(ScorecardOf(results), "by_risk_category") =>
                   /\ L[19] = "------------------------"
                   /\ L[20] = ""
                   /\ L[21] = "Results by Attack Complexity:"
            /\ ~HasKey(ScorecardOf(results), "by_complexity") =>
                   /\ L[Len(L) - 3] = "Results by Attack Complexity:"
                   /\ L[Len(L) - 2] = "----------------------------"
                   /\ L[Len(L) - 1] = ""
                   /\ L[Len(L)] = Rule80
            /\ \A i \in 1..n :
                   Get(risk[i][2], "total", PyInt(0)) = PyInt(0) =>
                       L[19 + 5 * i] = "  ASR: 0.00%"
            /\ \A i \in 1..Len(complexity) :
                   Get(complexity[i][2], "total", PyInt(0)) = PyInt(0) =>
                       L[22 + 5 * n + 5 * i] = "  ASR: 0.00%"

\* A report without by_risk_category whose complexity entry has total 0 has
\* been rendered, that entry at ASR 0.00%.
C7_Witness ==
    /\ Rendered(call)
    /\ WellFormedForReport(results)
    /\ ~HasKey(ScorecardOf(results), "by_risk_category")
    /\ Len(EntriesOf(results, "by_complexity")) >= 1
    /\ Get(EntriesOf(results, "by_complexity")[1][2], "total", Absent) = PyInt(0)
    /\ call.out.v.v[27] = "  ASR: 0.00%"

\* C8: calculate_asr, get_high_risk_findings and generate_summary_report never
\* raise to the caller, whatever the results value: when their body fails they
\* return 0.0, an empty list and 'Error generating summary report'.
C8_NeverRaisesReturnsDefault ==
    /\ call.op = "calculate_asr" =>
           /\ call.out.k = "return"
           /\ calculate_asr_try(results).k = "raise" => call.out.v = PyFloat(0)
    /\ call.op = "get_high_risk_findings" =>
           /\ call.out.k = "return"
           /\ get_high_risk_findings_try(results, ThresholdOf(call)).k = "raise"
                  => call.out.v = PyList(<<>>)
    /\ call.op = "generate_summary_report" =>
           /\ call.out.k = "return"
           /\ generate_summary_report_try(results).k = "raise"
                  => call.out.v = PyStr("Error generating summary report")

\* generate_summary_report was called on a results value that is no dict at
\* all and returned the error string.
C8_Witness ==
    /\ call.op = "generate_summary_report"
    /\ ~IsDict(results)
    /\ call.out = Return(PyStr("Error generating summary report"))

\* An entry the report's loop fails on: stats that is no dict, a total that is
\* no number, a successful that is no number beside a positive total, or a name
\* that is no str.
WrongShapedEntry(e) ==
    \/ ~IsDict(e[2])
    \/ /\ IsDict(e[2])
       /\ \/ ~IsNum(Get(e[2], "total", PyInt(0)))
          \/ /\ IsNum(Get(e[2], "total", PyInt(0)))
             /\ NumH(Get(e[2], "total", PyInt(0))) > 0
             /\ ~IsNum(Get(e[2], "successful", PyInt(0)))
    \/ e[1].t # "str"

\* res is well-formed but for wrong-shaped entries of by_risk_category, of
\* which it has at least one, beside at least one well-formed entry.
OneEntryWrongShaped(res) ==
    /\ IsDict(res)
    /\ IsDict(ScorecardOf(res))
    /\ ParametersOf(res) = FixtureParameters
    /\ IsDict(Get(ScorecardOf(res), "by_risk_category", PyDict(<<>>)))
    /\ WellFormedBreakdown(res, "by_complexity")
    /\ \E i \in 1..Len(EntriesOf(res, "by_risk_category")) :
           WrongShapedEntry(EntriesOf(res, "by_risk_category")[i])
    /\ \E i \in 1..Len(EntriesOf(res, "by_risk_category")) :
           WellFormedEntry(EntriesOf(res, "by_risk_category")[i])

\* C9 as claimed: with one breakdown entry malformed the report still renders
\* the configuration, the overall totals and the well-formed entries.
C9_AsClaimed ==
    (call.op = "generate_summary_report" /\ OneEntryWrongShaped(results)) =>
        /\ Rendered(call)
        /\ call.out.v.v[6] = "Scan Configuration:"
        /\ call.out.v.v[12] = "Overall Results:"
        /\ \A i \in 1..Len(EntriesOf(results, "by_risk_category")) :
               WellFormedEntry(EntriesOf(results, "by_risk_category")[i]) =>
                   \E b \in 1..Len(call.out.v.v) :
                       call.out.v.v[b] =
                           ExpectedUpper(EntriesOf(results, "by_risk_category")[i][1].v)
                               \o ":"

\* C9, amended: a field missing from a breakdown entry falls back to 0 for that
\* field alone and the report renders in full, but a wrong-shaped entry makes
\* generate_summary_report return 'Error generating summary report' in place
\* of the whole report.
C9_WrongShapedEntryFailsWholeReport ==
    /\ (call.op = "generate_summary_report" /\ OneEntryWrongShaped(results)) =>
           call.out = Return(PyStr("Error generating summary report"))
    /\ (call.op = "generate_summary_report" /\ WellFormedForReport(results)) =>
           /\ Rendered(call)
           /\ \A i \in 1..Len(EntriesOf(results, "by_risk_category")) :
                  LET e == EntriesOf(results, "by_risk_category")[i] IN
                  /\ ~HasKey(e[2], "total") =>
                         /\ call.out.v.v[19 + 5 * (i - 1) + 3] = "  Total Attacks: 0"
                         /\ call.out.v.v[19 + 5 * (i - 1) + 4] =
                                "  Successful: " \o Str(Get(e[2], "successful", PyInt(0)))
                  /\ BlockAt(call.out.v.v, 19 + 5 * (i - 1), e)

\* The whole report came back as the error string although only the second
\* by_risk_category entry is wrong-shaped.
C9_Witness ==
    /\ call.op = "generate_summary_report"
    /\ OneEntryWrongShaped(results)
    /\ Len(EntriesOf(results, "by_risk_category")) = 2
    /\ WellFormedEntry(EntriesOf(results, "by_risk_category")[1])
    /\ call.out = Return(PyStr("Error generating summary report"))

---------------------------------------------------------------------------
(* Properties of save_results and load_results.                            *)

\* A value made of what the data model's Scorecard is made of: mappings keyed
\* by distinct names, ordered sequences, numbers, booleans, text and null.
RECURSIVE WellFormedValue(_)
WellFormedValue(x) ==
    CASE x.t \in {"none", "bool", "int", "float", "str"} -> TRUE
      [] x.t = "list" -> \A i \in 1..Len(x.v) : WellFormedValue(x.v[i])
      [] x.t = "dict" ->
            /\ \A i \in 1..Len(x.v) :
                   x.v[i][1].t = "str" /\ WellFormedValue(x.v[i][2])
            /\ \A i, k \in 1..Len(x.v) : x.v[i][1] = x.v[k][1] => i = k
      [] OTHER -> FALSE

WellFormedScorecard(res) == IsDict(res) /\ WellFormedValue(res)

\* C10: load_results(save_results(sc)) is sc for any well-formed Scorecard:
\* every field comes back, and the individual results in their order. Loading
\* the path save_results has just returned gives sc, and so does every load
\* that returns.
C10_SaveLoadRoundTrip ==
    WellFormedScorecard(results) =>
        /\ (call.op = "save_results" /\ call.out.k = "return") =>
               load_results(call.out.v.v, files, TRUE) = Return(results)
        /\ (call.op = "load_results" /\ call.out.k = "return") =>
               call.out.v = results

\* A scorecard with two outcomes, the higher score second, has been saved under
\* a generated name and loaded back equal.
C10_Witness ==
    /\ call.op = "load_results"
    /\ call.args[1] = PathOf("red_team_results_20250101_000001.json")
    /\ WellFormedScorecard(results)
    /\ Len(OutcomesOf(results)) = 2
    /\ Get(OutcomesOf(results)[1], "risk_score", Absent) = PyFloat(30)
    /\ Get(OutcomesOf(results)[2], "risk_score", Absent) = PyFloat(85)
    /\ call.out = Return(results)

---------------------------------------------------------------------------
(* Strings held as the sequence of their characters, for the code that     *)
(* looks inside a string (str.split, str.strip, str.lower, int(), float()).*)
(* [t |-> "chars", v |-> q] is the str whose characters are q.             *)

PyChars(q) == [t |-> "chars", v |-> q]

Whitespace == {" ", "\t"}
Digits == {"0", "1", "2", "3", "4", "5", "6", "7", "8", "9"}
UpperCase == <<"A", "B", "C", "D", "E", "F", "G", "H", "I", "J", "K", "L", "M",
               "N", "O", "P", "Q", "R", "S", "T", "U", "V", "W", "X", "Y", "Z">>
LowerCase == <<"a", "b", "c", "d", "e", "f", "g", "h", "i", "j", "k", "l", "m",
               "n", "o", "p", "q", "r", "s", "t", "u", "v", "w", "x", "y", "z">>

\* str.lower() of one character, then of a string.
lower_char(c) ==
    IF \E i \in 1..Len(UpperCase) : UpperCase[i] = c
    THEN LowerCase[CHOOSE i \in 1..Len(UpperCase) : UpperCase[i] = c]
    ELSE c
lower(q) == [i \in 1..Len(q) |-> lower_char(q[i])]

RECURSIVE lstrip(_)
lstrip(q) ==
    IF q # <<>> /\ Head(q) \in Whitespace THEN lstrip(Tail(q)) ELSE q
RECURSIVE rstrip(_)
rstrip(q) ==
    IF q # <<>> /\ q[Len(q)] \in Whitespace
    THEN rstrip(SubSeq(q, 1, Len(q) - 1)) ELSE q
\* str.strip()
strip(q) == rstrip(lstrip(q))

\* str.split(sep) for a one-character sep: the pieces between the separators.
RECURSIVE split_from(_, _, _)
split_from(q, sep, piece) ==
    IF q = <<>> THEN <<piece>>
    ELSE IF Head(q) = sep THEN <<piece>> \o split_from(Tail(q), sep, <<>>)
    ELSE split_from(Tail(q), sep, Append(piece, Head(q)))
split(q, sep) == split_from(q, sep, <<>>)

\* sep.join(pieces)
RECURSIVE join_chars(_, _)
join_chars(sep, pieces) ==
    IF pieces = <<>> THEN <<>>
    ELSE IF Len(pieces) = 1 THEN pieces[1]
    ELSE pieces[1] \o sep \o join_chars(sep, Tail(pieces))

DigitValue(c) == CHOOSE n \in 0..9 : ToString(n) = c

\* A run of decimal digits, single underscores allowed between digits.
IsDigits(q) ==
    /\ Len(q) > 0
    /\ q[1] \in Digits
    /\ q[Len(q)] \in Digits
    /\ \A i \in 1..Len(q) : q[i] \in Digits \cup {"_"}
    /\ \A i \in 1..(Len(q) - 1) : ~(q[i] = "_" /\ q[i + 1] = "_")

RECURSIVE DigitsValue(_, _)
DigitsValue(q, acc) ==
    IF q = <<>> THEN acc
    ELSE IF Head(q) = "_" THEN DigitsValue(Tail(q), acc)
    ELSE DigitsValue(Tail(q), 10 * acc + DigitValue(Head(q)))

RECURSIVE DigitCount(_)
DigitCount(q) ==
    IF q = <<>> THEN 0
    ELSE (IF Head(q) = "_" THEN 0 ELSE 1) + DigitCount(Tail(q))

RECURSIVE Pow10(_)
Pow10(n) == IF n <= 0 THEN 1 ELSE 10 * Pow10(n - 1)

HasSign(q) == q # <<>> /\ q[1] \in {"+", "-"}
Unsigned(q) == IF HasSign(q) THEN Tail(q) ELSE q
SignOf(q) == IF q # <<>> /\ q[1] = "-" THEN -1 ELSE 1

\* int(q) of a str: surrounding whitespace is dropped, then an optional
\* sign and decimal digits; anything else is a ValueError.
int(q) ==
    LET s == strip(q) IN
    IF IsDigits(Unsigned(s))
    THEN Return(PyInt(SignOf(s) * DigitsValue(Unsigned(s), 0)))
    ELSE Raise("ValueError")

\* inf and nan, which float() accepts and which are no number of hundredths.
PyFloatSpecial(name) == [t |-> "float", special |-> name]

IndexOf(q, cs) == IF \E i \in 1..Len(q) : q[i] \in cs
                  THEN CHOOSE i \in 1..Len(q) :
                          q[i] \in cs /\ \A j \in 1..(i - 1) : q[j] \notin cs
                  ELSE 0

\* float(q) of a str: whitespace dropped, an optional sign, then inf, infinity
\* or nan in any case, or digits with an optional point and an optional
\* exponent.  The value is held in hundredths, rounded to the nearest.
float(q) ==
    LET s == strip(q)
        u == Unsigned(s)
        e == IndexOf(u, {"e", "E"})
        mant == IF e = 0 THEN u ELSE SubSeq(u, 1, e - 1)
        expo == IF e = 0 THEN <<"0">> ELSE SubSeq(u, e + 1, Len(u))
        dot == IndexOf(mant, {"."})
        whole == IF dot = 0 THEN mant ELSE SubSeq(mant, 1, dot - 1)
        frac == IF dot = 0 THEN <<>> ELSE SubSeq(mant, dot + 1, Len(mant))
        mant_ok == /\ whole = <<>> \/ IsDigits(whole)
                   /\ frac = <<>> \/ IsDigits(frac)
                   /\ whole # <<>> \/ frac # <<>>
        expo_ok == IsDigits(Unsigned(expo))
        x == SignOf(expo) * DigitsValue(Unsigned(expo), 0)
        m == DigitsValue(whole \o frac, 0)
        num == m * 100 * Pow10(x)
        den == Pow10(DigitCount(frac)) * Pow10(-x)
    IN  IF lower(u) \in {<<"i", "n", "f">>, <<"n", "a", "n">>,
                         <<"i", "n", "f", "i", "n", "i", "t", "y">>}
        THEN Return(PyFloatSpecial(
                 IF lower(u) = <<"n", "a", "n">> THEN "nan"
                 ELSE IF SignOf(s) = 1 THEN "inf" ELSE "-inf"))
        ELSE IF mant_ok /\ expo_ok
        THEN Return(PyFloat(SignOf(s) * RoundHalfEven(num, den)))
        ELSE Raise("ValueError")

---------------------------------------------------------------------------
(* Config (src/src/config_manager.py)                                      *)

RECURSIVE IntChars(_)
IntChars(n) ==
    IF n < 0 THEN <<"-">> \o IntChars(-n)
    ELSE IF n < 10 THEN <<ToString(n)>>
    ELSE IntChars(n \div 10) \o <<ToString(n % 10)>>

\* repr() of a float held in hundredths: 20 is 0.2, 25 is 0.25, 100 is 1.0.
FloatChars(h) ==
    LET a == IF h < 0 THEN -h ELSE h IN
    (IF h < 0 THEN <<"-">> ELSE <<>>) \o IntChars(a \div 100) \o <<".">> \o
    (IF a % 10 = 0 THEN <<ToString((a % 100) \div 10)>>
     ELSE <<ToString((a % 100) \div 10), ToString(a % 10)>>)

\* repr(x) and str(x), as characters.
RECURSIVE repr(_)
RECURSIVE ReprItems(_)
repr(x) ==
    CASE x.t = "none" -> <<"N", "o", "n", "e">>
      [] x.t = "bool" -> (IF x.v THEN <<"T", "r", "u", "e">>
                          ELSE <<"F", "a", "l", "s", "e">>)
      [] x.t = "int" -> IntChars(x.v)
      [] x.t = "float" -> FloatChars(x.v)
      [] x.t = "chars" -> <<"'">> \o x.v \o <<"'">>
      [] x.t = "list" -> <<"[">> \o ReprItems(x.v) \o <<"]">>
ReprItems(q) ==
    IF q = <<>> THEN <<>>
    ELSE IF Len(q) = 1 THEN repr(q[1])
    ELSE repr(q[1]) \o <<",", " ">> \o ReprItems(Tail(q))
str(x) == IF x.t = "chars" THEN x.v ELSE repr(x)

\* What the constructor reads of the config file: there is none, or
\* yaml.safe_load raises, or it returns a value.
NoConfigFile == [k |-> "nofile"]

\* Config._load_config_file, and the branch of __init__ that skips it
\* (lines 29-36, 119-126): the value of self.config_data.
load_config_file(file) ==
    IF file.k \in {"nofile", "raise"} THEN PyDict(<<>>)
    ELSE IF Truthy(file.v) THEN file.v
    ELSE PyDict(<<>>)

\* d.get(name, dflt) of any value d: only a dict has get.
get(d, name, dflt) ==
    IF IsDict(d) THEN Return(Get(d, name, dflt)) ELSE Raise("AttributeError")

\* self.config_data.get(section, {}).get(name, dflt)
section_get(data, section, name, dflt) ==
    LET s == get(data, section, PyDict(<<>>)) IN
    IF s.k = "raise" THEN s ELSE get(s.v, name, dflt)

\* os.getenv(name, dflt), dflt being the outcome of the expression that
\* Python evaluates before the call.
getenv(env, name, dflt) ==
    IF dflt.k = "raise" THEN dflt
    ELSE IF env[name] # Absent THEN Return(env[name])
    ELSE dflt

\* f applied to the value of an outcome, a raise passing through.
str_of(r) == IF r.k = "raise" THEN r ELSE Return(PyChars(str(r.v)))

\* [item for item in value.split(',')], the pieces left untrimmed.
split_only(q) ==
    PyList([i \in 1..Len(split(q, ",")) |-> PyChars(split(q, ",")[i])])

\* [item.strip() for item in value.split(',')]
split_and_strip(q) ==
    PyList([i \in 1..Len(split(q, ",")) |-> PyChars(strip(split(q, ",")[i]))])

Chars_violence == <<"v", "i", "o", "l", "e", "n", "c", "e">>
Chars_sexual == <<"s", "e", "x", "u", "a", "l">>
Chars_hate_unfairness ==
    <<"h", "a", "t", "e", "_", "u", "n", "f", "a", "i", "r", "n", "e", "s", "s">>
Chars_self_harm == <<"s", "e", "l", "f", "_", "h", "a", "r", "m">>

\* The built-in risk categories (lines 74-79).
DefaultRiskCategories ==
    PyList(<<PyChars(Chars_violence), PyChars(Chars_sexual),
             PyChars(Chars_hate_unfairness), PyChars(Chars_self_harm)>>)

\* A list-valued field with the file's value before the environment's.
list_field_file_first(env, red_team_config, env_name, name, dflt) ==
    LET e == getenv(env, env_name, Return(PyChars(<<>>))) IN
    IF IsDict(red_team_config) /\ HasKey(red_team_config, name)
    THEN Return(Get(red_team_config, name, dflt))
    ELSE IF Truthy(e.v) THEN Return(split_and_strip(e.v.v))
    ELSE Return(dflt)

\* A list-valued field (lines 69-86): the environment's value when it is not
\* empty, else the file's, else the default.
list_field(env, red_team_config, env_name, name, dflt) ==
    LET e == getenv(env, env_name, Return(PyChars(<<>>))) IN
    IF Truthy(e.v) THEN Return(split_and_strip(e.v.v))
    ELSE get(red_team_config, name, dflt)

RECURSIVE lstrip_char(_, _)
lstrip_char(q, c) == IF q # <<>> /\ Head(q) = c THEN lstrip_char(Tail(q), c) ELSE q

\* pathlib.Path(x), held as the characters of str(path): the parts between
\* slashes, without the empty ones and the '.' ones, after the root (one
\* slash, or two when the path starts with exactly two).
RECURSIVE PathParts(_)
PathParts(parts) ==
    IF parts = <<>> THEN <<>>
    ELSE IF Head(parts) \in {<<>>, <<".">>} THEN PathParts(Tail(parts))
    ELSE <<Head(parts)>> \o PathParts(Tail(parts))
PyPath(q) == [t |-> "path", v |-> q]
Path(x) ==
    IF x.t # "chars" THEN Raise("TypeError")
    ELSE LET parts == PathParts(split(x.v, "/"))
             slashes == Len(x.v) - Len(lstrip_char(x.v, "/"))
             root == IF slashes = 0 THEN <<>>
                     ELSE IF slashes = 2 THEN <<"/", "/">> ELSE <<"/">>
             rel == join_chars(<<"/">>, parts)
         IN  Return(PyPath(IF root \o rel = <<>> THEN <<".">> ELSE root \o rel))

\* A scalar field read as os.getenv(env_name, <section>.get(name, dflt))
\* (lines 39-60, 100-110).
scalar_field(env, data, env_name, section, name, dflt) ==
    getenv(env, env_name, section_get(data, section, name, dflt))

\* num_objectives with a parse failure replaced by the default.
num_objectives_field_defaulting(env, red_team_config) ==
    LET g == getenv(env, "NUM_OBJECTIVES",
                    str_of(get(red_team_config, "num_objectives", PyInt(10)))) IN
    IF g.k = "raise" THEN g
    ELSE IF int(g.v.v).k = "raise" THEN Return(PyInt(10))
    ELSE int(g.v.v)

\* num_objectives (lines 64-67):
\* int(os.getenv('NUM_OBJECTIVES', str(red_team_config.get('num_objectives', 10))))
num_objectives_field(env, red_team_config) ==
    LET g == getenv(env, "NUM_OBJECTIVES",
                    str_of(get(red_team_config, "num_objectives", PyInt(10)))) IN
    IF g.k = "raise" THEN g ELSE int(g.v.v)

\* asr_threshold (lines 89-92):
\* float(os.getenv('ASR_THRESHOLD', str(red_team_config.get('asr_threshold', 0.2))))
asr_threshold_field(env, red_team_config) ==
    LET g == getenv(env, "ASR_THRESHOLD",
                    str_of(get(red_team_config, "asr_threshold", PyFloat(20)))) IN
    IF g.k = "raise" THEN g ELSE float(g.v.v)

Chars_true == <<"t", "r", "u", "e">>

\* The first raise of a sequence of outcomes, or none.
RECURSIVE FirstRaise(_)
FirstRaise(outs) ==
    IF outs = <<>> THEN Return(PyNone)
    ELSE IF Head(outs).k = "raise" THEN Head(outs)
    ELSE FirstRaise(Tail(outs))

\* Config.__init__ (lines 21-117) on the environment env and the config
\* file's content file; mkdir_ok says whether output_dir.mkdir succeeds.
Config_init(env, file, mkdir_ok) ==
    LET data == load_config_file(file)
        sub == scalar_field(env, data, "AZURE_SUBSCRIPTION_ID",
                            "azure", "subscription_id", PyChars(<<>>))
        rg == scalar_field(env, data, "AZURE_RESOURCE_GROUP",
                           "azure", "resource_group", PyChars(<<>>))
        proj == scalar_field(env, data, "AZURE_PROJECT_NAME",
                             "azure", "project_name", PyChars(<<>>))
        tenant == scalar_field(env, data, "AZURE_TENANT_ID",
                               "azure", "tenant_id", PyChars(<<>>))
        storage == scalar_field(env, data, "AZURE_STORAGE_ACCOUNT_NAME",
                                "azure", "storage_account_name", PyChars(<<>>))
        rtc == get(data, "red_teaming", PyDict(<<>>))
        red_team_config == IF rtc.k = "raise" THEN PyNone ELSE rtc.v
        num == num_objectives_field(env, red_team_config)
        risk == list_field(env, red_team_config, "RISK_CATEGORIES",
                           "risk_categories", DefaultRiskCategories)
        attack == list_field(env, red_team_config, "ATTACK_STRATEGIES",
                             "attack_strategies", PyNone)
        asr == asr_threshold_field(env, red_team_config)
        dir == scalar_field(env, data, "OUTPUT_DIR", "output", "directory",
                            PyChars(<<".", "/", "o", "u", "t", "p", "u", "t", "s">>))
        output_dir == IF dir.k = "raise" THEN dir ELSE Path(dir.v)
        output_format == scalar_field(env, data, "OUTPUT_FORMAT", "output",
                                      "format", PyChars(<<"j", "s", "o", "n">>))
        log_level == scalar_field(env, data, "LOG_LEVEL", "logging", "level",
                                  PyChars(<<"I", "N", "F", "O">>))
        to_file == getenv(env, "LOG_TO_FILE",
                          str_of(section_get(data, "logging", "to_file",
                                             PyChars(Chars_true))))
        mkdir == IF mkdir_ok THEN Return(PyNone) ELSE Raise("OSError")
        raised == FirstRaise(<<sub, rg, proj, tenant, storage, rtc, num, risk,
                               attack, asr, output_dir, output_format,
                               log_level, to_file, mkdir>>)
    IN  IF raised.k = "raise" THEN raised
        ELSE Return([t |-> "Config",
                     azure_subscription_id |-> sub.v,
                     azure_resource_group |-> rg.v,
                     azure_project_name |-> proj.v,
                     azure_tenant_id |-> tenant.v,
                     azure_storage_account_name |-> storage.v,
                     num_objectives |-> num.v,
                     risk_categories |-> risk.v,
                     attack_strategies |-> attack.v,
                     asr_threshold |-> asr.v,
                     output_dir |-> output_dir.v,
                     output_format |-> output_format.v,
                     log_level |-> log_level.v,
                     log_to_file |-> PyBool(lower(to_file.v.v) = Chars_true)])

\* The required fields of validate (lines 135-139), in its order.
required_fields(cfg) ==
    <<<<"azure_subscription_id", cfg.azure_subscription_id>>,
      <<"azure_resource_group", cfg.azure_resource_group>>,
      <<"azure_project_name", cfg.azure_project_name>>>>

\* The loop stopping at the first missing field.
RECURSIVE missing_fields_first_only(_)
missing_fields_first_only(fields) ==
    IF fields = <<>> THEN <<>>
    ELSE IF ~Truthy(Head(fields)[2]) THEN <<PyStr(Head(fields)[1])>>
    ELSE missing_fields_first_only(Tail(fields))

\* The loop of lines 141-144: the names of the fields that are falsy.
RECURSIVE missing_fields(_)
missing_fields(fields) ==
    IF fields = <<>> THEN <<>>
    ELSE (IF ~Truthy(Head(fields)[2]) THEN <<PyStr(Head(fields)[1])>> ELSE <<>>)
         \o missing_fields(Tail(fields))

\* Config.validate (lines 128-151): what it returns and what it prints.
validate(cfg) ==
    LET missing == missing_fields(required_fields(cfg)) IN
    IF missing # <<>>
    THEN [out |-> Return(PyBool(FALSE)),
          printed |-> <<"Error: Missing required configuration fields: "
                            \o JoinStrs(missing, ", "),
                        "Please set these values in environment variables or config.yaml">>]
    ELSE [out |-> Return(PyBool(TRUE)), printed |-> <<>>]

---------------------------------------------------------------------------
(* The environments and config files Config is constructed on.             *)

EnvNames == {"AZURE_SUBSCRIPTION_ID", "AZURE_RESOURCE_GROUP", "AZURE_PROJECT_NAME",
             "AZURE_TENANT_ID", "AZURE_STORAGE_ACCOUNT_NAME", "NUM_OBJECTIVES",
             "RISK_CATEGORIES", "ATTACK_STRATEGIES", "ASR_THRESHOLD",
             "OUTPUT_DIR", "OUTPUT_FORMAT", "LOG_LEVEL", "LOG_TO_FILE"}

\* os.environ with nothing of the configuration set, and with some of it set.
EmptyEnviron == [n \in EnvNames |-> Absent]
SetEnv(env, name, value) == [env EXCEPT ![name] = value]

\* Every str of at most MaxEnvLen characters of cs, and being unset.
EnvValues(cs) == {PyChars(q) : q \in SeqsUpTo(MaxEnvLen, cs)} \cup {Absent}

\* The file's red_teaming section with the given fields (Absent: left out).
RedTeaming(num_objectives, risk_categories, attack_strategies, asr_threshold) ==
    MkDict(<<<<"num_objectives", num_objectives>>,
             <<"risk_categories", risk_categories>>,
             <<"attack_strategies", attack_strategies>>,
             <<"asr_threshold", asr_threshold>>>>)

\* The file's azure section with the three required identifiers.
Azure(subscription_id, resource_group, project_name) ==
    MkDict(<<<<"subscription_id", subscription_id>>,
             <<"resource_group", resource_group>>,
             <<"project_name", project_name>>>>)

\* A config file with the given sections.
ConfigFile(azure, red_teaming) ==
    Return(MkDict(<<<<"azure", azure>>, <<"red_teaming", red_teaming>>>>))

Chars_f == PyChars(<<"f">>)
Chars_x == PyChars(<<"x">>)

\* What the file gives for a list-valued field.
FileLists == {Absent, PyList(<<>>), PyList(<<Chars_x>>),
              PyList(<<Chars_x, Chars_f>>), PyNone}

\* What the file gives for num_objectives and for asr_threshold.
FileNums == {Absent, PyInt(3), PyInt(10), PyChars(<<"4">>), Chars_x, PyNone,
             PyFloat(250), PyBool(TRUE)}
FileThresholds == {Absent, PyFloat(30), PyFloat(20), PyInt(1),
                   PyChars(<<"h", "i", "g", "h">>), PyNone}

\* What the file gives for a required identifier.
FileIds == {Absent, Chars_f, PyChars(<<>>), PyNone, PyInt(0), PyInt(7)}

Files == {NoConfigFile, ConfigFile(Absent, Absent)}

RiskInputs ==
    {[env |-> SetEnv(EmptyEnviron, "RISK_CATEGORIES", e),
      file |-> ConfigFile(Absent, RedTeaming(Absent, f, Absent, Absent))] :
        e \in EnvValues({"a", ",", " "}), f \in FileLists}
        \cup {[env |-> SetEnv(EmptyEnviron, "RISK_CATEGORIES", e), file |-> NoConfigFile] :
                 e \in EnvValues({"a", ","})}

AttackInputs ==
    {[env |-> SetEnv(EmptyEnviron, "ATTACK_STRATEGIES", e),
      file |-> ConfigFile(Absent, RedTeaming(Absent, Absent, f, Absent))] :
        e \in {Absent, PyChars(<<>>), PyChars(<<"a", ",", " ", "b", " ">>)},
        f \in FileLists}

NumInputs ==
    {[env |-> SetEnv(EmptyEnviron, "NUM_OBJECTIVES", e),
      file |-> ConfigFile(Absent, RedTeaming(f, Absent, Absent, Absent))] :
        e \in EnvValues({"1", "0", " ", "x"}), f \in {Absent, PyInt(3), Chars_x}}
        \cup {[env |-> SetEnv(EmptyEnviron, "NUM_OBJECTIVES", e),
               file |-> ConfigFile(Absent, RedTeaming(f, Absent, Absent, Absent))] :
                 e \in {Absent, PyChars(<<"5">>), PyChars(<<"3", ".", "5">>)},
                 f \in FileNums}

ThresholdInputs ==
    {[env |-> SetEnv(EmptyEnviron, "ASR_THRESHOLD", e),
      file |-> ConfigFile(Absent, RedTeaming(Absent, Absent, Absent, f))] :
        e \in EnvValues({"0", "5", ".", "x"}), f \in {Absent, PyFloat(30)}}
        \cup {[env |-> SetEnv(EmptyEnviron, "ASR_THRESHOLD", e),
               file |-> ConfigFile(Absent, RedTeaming(Absent, Absent, Absent, f))] :
                 e \in {Absent, PyChars(<<"0", ".", "3">>), PyChars(<<"n", "a", "n">>),
                        PyChars(<<"1", "e", "-", "1">>),
                        PyChars(<<"h", "i", "g", "h">>)},
                 f \in FileThresholds}

IdEnvValues == {Absent, PyChars(<<>>), PyChars(<<"s">>)}

IdInputs ==
    {[env |-> [EmptyEnviron EXCEPT !["AZURE_SUBSCRIPTION_ID"] = s,
                                   !["AZURE_RESOURCE_GROUP"] = g,
                                   !["AZURE_PROJECT_NAME"] = p],
      file |-> f] : s \in IdEnvValues, g \in IdEnvValues, p \in IdEnvValues,
                    f \in Files}
        \cup {[env |-> SetEnv(EmptyEnviron, "AZURE_PROJECT_NAME", p),
               file |-> ConfigFile(Azure(s, g, Chars_f), Absent)] :
                 s \in FileIds, g \in FileIds, p \in {Absent, PyChars(<<>>)}}

\* Files that are not the mapping of mappings the constructor expects, and
\* the other fields of the configuration.
OtherInputs ==
    {[env |-> EmptyEnviron, file |-> f] :
        f \in {Raise("YAMLError"), Return(PyNone), Return(PyList(<<Chars_x>>)),
               ConfigFile(PyNone, Absent), ConfigFile(Absent, PyNone),
               ConfigFile(Absent, PyList(<<>>)),
               Return(MkDict(<<<<"output", MkDict(<<<<"directory", PyInt(1)>>>>)>>>>)),
               Return(MkDict(<<<<"logging", MkDict(<<<<"to_file", PyBool(TRUE)>>>>)>>>>))}}
        \cup {[env |-> SetEnv(EmptyEnviron, "OUTPUT_DIR", PyChars(d)), file |-> NoConfigFile] :
                 d \in {<<>>, <<"o">>, <<".", "/", "o", "/", "/", "p">>, <<"/", "o">>}}
        \cup {[env |-> SetEnv(EmptyEnviron, "LOG_TO_FILE", PyChars(d)), file |-> NoConfigFile] :
                 d \in {<<"T", "R", "U", "E">>, <<"n", "o">>}}

ConfigInputs ==
    RiskInputs \cup AttackInputs \cup NumInputs \cup ThresholdInputs
        \cup IdInputs \cup OtherInputs

InitConfig ==
    /\ \E i \in ConfigInputs : environ = i.env /\ config_data = i.file
    /\ config = PyNone
    /\ call = NoCall
    /\ results = PyNone
    /\ files = EmptyDir
    /\ clock = 0
    /\ NoAgent
    /\ NoApp

\* config = Config()
NewConfig ==
    \E mkdir_ok \in BOOLEAN :
        LET r == Config_init(environ, config_data, mkdir_ok) IN
        /\ call' = [op |-> "Config", args |-> <<>>, out |-> r]
        /\ config' = IF r.k = "return" THEN r.v ELSE config
        /\ UNCHANGED <<environ, config_data, results, files, clock, agentVars, appVars>>

\* config.validate()
Validate ==
    /\ config # PyNone
    /\ call' = [op |-> "validate", args |-> <<config>>,
                out |-> validate(config).out, printed |-> validate(config).printed]
    /\ UNCHANGED <<configVars, results, files, clock, agentVars, appVars>>

NextConfig == NewConfig \/ Validate

SpecConfig == InitConfig /\ [][NextConfig]_vars

---------------------------------------------------------------------------
(* Properties of Config.                                                   *)

\* The last call was Config() and it returned the object.
Constructed == call.op = "Config" /\ call.out.k = "return"

\* The file's value of section.name, Absent when the file has none.
FileValue(section, name) ==
    IF config_data.k = "return" /\ IsDict(config_data.v)
       /\ HasKey(config_data.v, section)
       /\ IsDict(Get(config_data.v, section, PyNone))
    THEN Get(Get(config_data.v, section, PyNone), name, Absent)
    ELSE Absent

\* The environment supplies the variable: it is set (and, Supplied, not empty).
IsSet(name) == environ[name] # Absent
Supplied(name) == IsSet(name) /\ environ[name].v # <<>>

\* The positions of the commas of q, and the i-th of them in order
\* (position 0 before the first, Len(q) + 1 after the last).
CommaPositions(q) == {i \in 1..Len(q) : q[i] = ","}
CommaAt(q, i) ==
    IF i = 0 THEN 0
    ELSE IF i > Cardinality(CommaPositions(q)) THEN Len(q) + 1
    ELSE CHOOSE p \in CommaPositions(q) :
             Cardinality({c \in CommaPositions(q) : c < p}) = i - 1

\* q without the whitespace around it: from its first character that is no
\* whitespace to its last.
Trimmed(q) ==
    LET inked == {i \in 1..Len(q) : q[i] \notin Whitespace} IN
    IF inked = {} THEN <<>>
    ELSE SubSeq(q, CHOOSE i \in inked : \A j \in inked : i <= j,
                   CHOOSE i \in inked : \A j \in inked : i >= j)

\* The list a comma-separated value stands for: one item per comma and one
\* more, each the trimmed text between two neighbouring commas.
ExpectedEnvList(q) ==
    PyList([i \in 1..(Cardinality(CommaPositions(q)) + 1) |->
               PyChars(Trimmed(SubSeq(q, CommaAt(q, i - 1) + 1, CommaAt(q, i) - 1)))])

FourCategories ==
    PyList(<<PyChars(<<"v", "i", "o", "l", "e", "n", "c", "e">>),
             PyChars(<<"s", "e", "x", "u", "a", "l">>),
             PyChars(<<"h", "a", "t", "e", "_", "u", "n", "f", "a", "i", "r",
                       "n", "e", "s", "s">>),
             PyChars(<<"s", "e", "l", "f", "_", "h", "a", "r", "m">>)>>)

\* C11: a constructed Config takes risk_categories from a non-empty
\* RISK_CATEGORIES whatever the file says, from the file's
\* red_teaming.risk_categories when the environment supplies none, and is
\* the list violence, sexual, hate_unfairness, self_harm when neither
\* supplies it; a scalar field (azure_subscription_id) takes the
\* environment's value when set, else the file's, else its default ''.
C11_EnvironmentThenFileThenDefault ==
    Constructed =>
        LET got == call.out.v.risk_categories
            f == FileValue("red_teaming", "risk_categories")
            id == FileValue("azure", "subscription_id")
        IN  /\ Supplied("RISK_CATEGORIES") =>
                   got = ExpectedEnvList(environ["RISK_CATEGORIES"].v)
            /\ (~Supplied("RISK_CATEGORIES") /\ f # Absent) => got = f
            /\ (~Supplied("RISK_CATEGORIES") /\ f = Absent) => got = FourCategories
            /\ call.out.v.azure_subscription_id =
                   IF IsSet("AZURE_SUBSCRIPTION_ID") THEN environ["AZURE_SUBSCRIPTION_ID"]
                   ELSE IF id # Absent THEN id
                   ELSE PyChars(<<>>)

\* Config() returned on an environment and a file that both supply
\* risk_categories, and differently.
C11_Witness ==
    /\ Constructed
    /\ Supplied("RISK_CATEGORIES")
    /\ FileValue("red_teaming", "risk_categories") = PyList(<<PyChars(<<"x">>)>>)
    /\ call.out.v.risk_categories = PyList(<<PyChars(<<"a">>), PyChars(<<"a">>)>>)

\* C12: a constructed Config's risk_categories is never empty, whatever
\* RISK_CATEGORIES and the file's red_teaming.risk_categories are (unset,
\* empty or populated), and is the four categories when no source supplies it.
C12_RiskCategoriesNeverEmpty ==
    Constructed =>
        /\ call.out.v.risk_categories.t = "list"
        /\ Len(call.out.v.risk_categories.v) > 0
        /\ (~Supplied("RISK_CATEGORIES")
                /\ FileValue("red_teaming", "risk_categories") = Absent)
               => call.out.v.risk_categories = FourCategories

\* The value a list-valued field gets from a comma-separated environment
\* value q: as many items as q has commas and one more, each the text
\* between two commas with no whitespace left around it.
SplitAndTrimmed(got, q) ==
    /\ got.t = "list"
    /\ got = ExpectedEnvList(q)
    /\ \A i \in 1..Len(got.v) :
           LET item == got.v[i].v IN
           item # <<>> => (item[1] \notin Whitespace /\ item[Len(item)] \notin Whitespace)

\* C13: RISK_CATEGORIES and ATTACK_STRATEGIES are split on commas, each
\* piece trimmed of the whitespace around it; set to the empty string they
\* count as not supplied: the field is the file's value, or without one the
\* built-in default (the four categories; None for the strategies).
C13_ListsSplitTrimmedEmptyFallsThrough ==
    Constructed =>
        /\ Supplied("RISK_CATEGORIES") =>
               SplitAndTrimmed(call.out.v.risk_categories, environ["RISK_CATEGORIES"].v)
        /\ Supplied("ATTACK_STRATEGIES") =>
               SplitAndTrimmed(call.out.v.attack_strategies, environ["ATTACK_STRATEGIES"].v)
        /\ environ["RISK_CATEGORIES"] = PyChars(<<>>) =>
               call.out.v.risk_categories =
                   IF FileValue("red_teaming", "risk_categories") # Absent
                   THEN FileValue("red_teaming", "risk_categories")
                   ELSE FourCategories
        /\ environ["ATTACK_STRATEGIES"] = PyChars(<<>>) =>
               call.out.v.attack_strategies =
                   IF FileValue("red_teaming", "attack_strategies") # Absent
                   THEN FileValue("red_teaming", "attack_strategies")
                   ELSE PyNone

\* Config() returned on ATTACK_STRATEGIES='a, b ' with the two names trimmed.
C13_Witness ==
    /\ Constructed
    /\ environ["ATTACK_STRATEGIES"] = PyChars(<<"a", ",", " ", "b", " ">>)
    /\ call.out.v.attack_strategies = PyList(<<PyChars(<<"a">>), PyChars(<<"b">>)>>)

\* The text a numeric field is parsed from: the environment's when the
\* variable is set, else the file's value when it has one, else Absent.
RawNumber(env_name, name) ==
    IF IsSet(env_name) THEN environ[env_name] ELSE FileValue("red_teaming", name)

\* The digits of q (underscores aside) read as a decimal number.
DecimalValue(q) ==
    LET ds == {i \in 1..Len(q) : q[i] \in Digits}
        after(i) == Cardinality({j \in ds : j > i})
        place[k \in 0..Len(q)] ==
            IF k = 0 THEN 0
            ELSE place[k - 1] + (IF k \in ds THEN DigitValue(q[k]) * Pow10(after(k)) ELSE 0)
    IN  place[Len(q)]

\* q is digits, single underscores allowed inside.
DigitRun(q) ==
    /\ q # <<>>
    /\ \A i \in 1..Len(q) :
           \/ q[i] \in Digits
           \/ q[i] = "_" /\ 1 < i /\ i < Len(q) /\ q[i - 1] \in Digits /\ q[i + 1] \in Digits

Core(q) == IF Trimmed(q) # <<>> /\ Trimmed(q)[1] \in {"+", "-"}
           THEN Tail(Trimmed(q)) ELSE Trimmed(q)
Negative(q) == Trimmed(q) # <<>> /\ Trimmed(q)[1] = "-"

\* The value x parses as an integer: an int, or a str that is an integer
\* literal; IntegerOf is then its value.
ParsesAsInteger(x) == x.t = "int" \/ (x.t = "chars" /\ DigitRun(Core(x.v)))
IntegerOf(x) ==
    IF x.t = "int" THEN x.v
    ELSE (IF Negative(x.v) THEN -1 ELSE 1) * DecimalValue(Core(x.v))

\* The str c is a float literal: inf, infinity or nan in any case, or
\* digits with an optional point, then an optional exponent.
FloatLiteral(c) ==
    \/ lower(c) \in {<<"i", "n", "f">>, <<"n", "a", "n">>,
                     <<"i", "n", "f", "i", "n", "i", "t", "y">>}
    \/ \E m \in 1..Len(c) :
           LET mant == SubSeq(c, 1, m)
               rest == SubSeq(c, m + 1, Len(c))
               points == {i \in 1..m : mant[i] = "."}
           IN  /\ \/ DigitRun(mant)
                  \/ /\ Cardinality(points) = 1
                     /\ LET p == CHOOSE i \in points : TRUE
                            w == SubSeq(mant, 1, p - 1)
                            f == SubSeq(mant, p + 1, m)
                        IN  /\ w = <<>> \/ DigitRun(w)
                            /\ f = <<>> \/ DigitRun(f)
                            /\ w # <<>> \/ f # <<>>
               /\ \/ rest = <<>>
                  \/ /\ rest[1] \in {"e", "E"}
                     /\ \/ DigitRun(Tail(rest))
                        \/ /\ Len(rest) > 2
                           /\ rest[2] \in {"+", "-"}
                           /\ DigitRun(Tail(Tail(rest)))

\* The value x parses as a float: a number, or a str that is a float literal.
ParsesAsFloat(x) == x.t \in {"int", "float"} \/ (x.t = "chars" /\ FloatLiteral(Core(x.v)))

\* The literals that denote 0.2 among those the model draws.
DenotesFifth(x) ==
    \/ x = PyFloat(20)
    \/ x.t = "chars" /\ Core(x.v) \in {<<"0", ".", "2">>, <<".", "2">>, <<"0", ".", "2", "0">>}

\* C14: when the text num_objectives is read from (NUM_OBJECTIVES, or else
\* the file's num_objectives) is no integer, or the text asr_threshold is
\* read from (ASR_THRESHOLD, or else the file's asr_threshold) is no float,
\* Config() raises; a Config that was constructed holds the parsed values,
\* so 10 and 0.2 only where the source says so or there is no source.
C14_UnparseableNumberFailsConstruction ==
    call.op = "Config" =>
        LET n == RawNumber("NUM_OBJECTIVES", "num_objectives")
            a == RawNumber("ASR_THRESHOLD", "asr_threshold")
        IN  /\ (n # Absent /\ ~ParsesAsInteger(n)) => call.out.k = "raise"
            /\ (a # Absent /\ ~ParsesAsFloat(a)) => call.out.k = "raise"
            /\ (call.out.k = "return" /\ n # Absent) =>
                   call.out.v.num_objectives = PyInt(IntegerOf(n))
            /\ (call.out.k = "return" /\ a # Absent
                    /\ call.out.v.asr_threshold = PyFloat(20)) => DenotesFifth(a)

\* Config() raised ValueError on NUM_OBJECTIVES='x', and on a file whose
\* asr_threshold is 'high'.
C14_Witness ==
    /\ call.op = "Config"
    /\ call.out = Raise("ValueError")
    /\ \/ environ["NUM_OBJECTIVES"] = PyChars(<<"x">>)
       \/ /\ ~IsSet("ASR_THRESHOLD")
          /\ FileValue("red_teaming", "asr_threshold") = PyChars(<<"h", "i", "g", "h">>)

\* A required field counts as empty when it is '', None or 0.
EmptyField(x) == x \in {PyChars(<<>>), PyNone, PyInt(0)}

\* The names of the required fields of config that are empty, in the order
\* subscription, resource group, project, joined by ', '.
EmptyFieldNames ==
    LET names == (IF EmptyField(config.azure_subscription_id)
                  THEN <<"azure_subscription_id">> ELSE <<>>)
                 \o (IF EmptyField(config.azure_resource_group)
                     THEN <<"azure_resource_group">> ELSE <<>>)
                 \o (IF EmptyField(config.azure_project_name)
                     THEN <<"azure_project_name">> ELSE <<>>)
    IN  CASE Len(names) = 0 -> ""
          [] Len(names) = 1 -> names[1]
          [] Len(names) = 2 -> names[1] \o ", " \o names[2]
          [] Len(names) = 3 -> names[1] \o ", " \o names[2] \o ", " \o names[3]

\* C15: validate() always returns a bool and never raises; it returns True
\* exactly when azure_subscription_id, azure_resource_group and
\* azure_project_name are all non-empty, and with False it prints one
\* message naming every empty field.
C15_ValidateReportsEveryMissingField ==
    call.op = "validate" =>
        /\ call.out.k = "return"
        /\ call.out.v.t = "bool"
        /\ call.out.v.v = (EmptyFieldNames = "")
        /\ ~call.out.v.v =>
               /\ Len(call.printed) > 0
               /\ call.printed[1] =
                      "Error: Missing required configuration fields: " \o EmptyFieldNames
        /\ call.out.v.v => call.printed = <<>>

\* validate() returned False on a configuration without a resource group
\* and a project name, and named both.
C15_Witness ==
    /\ call.op = "validate"
    /\ call.out = Return(PyBool(FALSE))
    /\ config.azure_subscription_id = PyChars(<<"s">>)
    /\ call.printed[1] = "Error: Missing required configuration fields: "
                             \o "azure_resource_group, azure_project_name"

---------------------------------------------------------------------------
(* RedTeamingAgent (src/src/red_team_agent.py)                             *)

\* RedTeamingAgent.__init__ (lines 35-47): the fields it sets besides config.
NewAgent == [credential |-> PyNone, red_team_agent |-> PyNone]

\* setup building the engine handle without looking at what
\* verify_authentication returned.
setup_unverified(cfg, ag, credential, verified, handle) ==
    IF ~validate(cfg).out.v.v
    THEN [out |-> Return(PyBool(FALSE)), agent |-> ag, steps |-> <<"validate">>]
    ELSE IF credential.k = "raise"
    THEN [out |-> Return(PyBool(FALSE)), agent |-> ag,
          steps |-> <<"validate", "get_azure_credential">>]
    ELSE IF handle.k = "raise"
    THEN [out |-> Return(PyBool(FALSE)),
          agent |-> [ag EXCEPT !.credential = credential.v],
          steps |-> <<"validate", "get_azure_credential", "verify_authentication",
                      "RedTeam">>]
    ELSE [out |-> Return(PyBool(TRUE)),
          agent |-> [credential |-> credential.v,
                     red_team_agent |->
                         [t |-> "RedTeam",
                          subscription_id |-> cfg.azure_subscription_id,
                          resource_group_name |-> cfg.azure_resource_group,
                          project_name |-> cfg.azure_project_name,
                          credential |-> credential.v,
                          id |-> handle.v]],
          steps |-> <<"validate", "get_azure_credential", "verify_authentication",
                      "RedTeam">>]

\* setup (lines 49-85).  credential is the outcome of get_azure_credential(),
\* verified what verify_authentication returns, handle the outcome of
\* RedTeam(...).  Any exception ends in the except clause: False.
\* steps names the calls made, in order.
setup(cfg, ag, credential, verified, handle) ==
    IF ~validate(cfg).out.v.v
    THEN [out |-> Return(PyBool(FALSE)), agent |-> ag, steps |-> <<"validate">>]
    ELSE IF credential.k = "raise"
    THEN [out |-> Return(PyBool(FALSE)), agent |-> ag,
          steps |-> <<"validate", "get_azure_credential">>]
    ELSE IF ~verified
    THEN [out |-> Return(PyBool(FALSE)),
          agent |-> [ag EXCEPT !.credential = credential.v],
          steps |-> <<"validate", "get_azure_credential", "verify_authentication">>]
    ELSE IF handle.k = "raise"
    THEN [out |-> Return(PyBool(FALSE)),
          agent |-> [ag EXCEPT !.credential = credential.v],
          steps |-> <<"validate", "get_azure_credential", "verify_authentication",
                      "RedTeam">>]
    ELSE [out |-> Return(PyBool(TRUE)),
          agent |-> [credential |-> credential.v,
                     red_team_agent |->
                         [t |-> "RedTeam",
                          subscription_id |-> cfg.azure_subscription_id,
                          resource_group_name |-> cfg.azure_resource_group,
                          project_name |-> cfg.azure_project_name,
                          credential |-> credential.v,
                          id |-> handle.v]],
          steps |-> <<"validate", "get_azure_credential", "verify_authentication",
                      "RedTeam">>]

\* x or y
Or(x, y) == IF Truthy(x) THEN x ELSE y

\* The only element of a set of one element: Only({f(x) : x \in {e}}) is f(e)
\* with e computed once.
Only(S) == CHOOSE y \in S : TRUE

---------------------------------------------------------------------------
(* Binary floating point (IEEE 754 double), for ScanBuilder's divisions    *)
(* and round(x, 2).  A positive double is its 53 mantissa bits, most        *)
(* significant first, and the exponent e of the first bit.                  *)

MantissaBits == 53

RECURSIVE Pow2(_)
Pow2(n) == IF n = 0 THEN 1 ELSE 2 * Pow2(n - 1)

\* The first n bits after the point of r/q (r < q), appended to acc, and what
\* remains.
RECURSIVE FractionBits(_, _, _, _)
FractionBits(r, q, n, acc) ==
    IF n = 0 THEN [bits |-> acc, rem |-> r]
    ELSE FractionBits((2 * r) % q, q, n - 1, Append(acc, (2 * r) \div q))

\* The exponent of p/q: 2^e <= p/q < 2^(e+1).
RECURSIVE ExponentOf(_, _)
ExponentOf(p, q) ==
    IF p >= 2 * q THEN ExponentOf(p, 2 * q) + 1
    ELSE IF p < q THEN ExponentOf(2 * p, q) - 1
    ELSE 0

\* p/q cut to 53 bits: the bits, the exponent and the remainder left over
\* (a numerator over den).
Expansion(p, q) ==
    LET e == ExponentOf(p, q)
        P == IF e < 0 THEN p * Pow2(0 - e) ELSE p
        Q == IF e > 0 THEN q * Pow2(e) ELSE q
        f == FractionBits(P - Q, Q, MantissaBits - 1, <<1>>)
    IN  [m |-> f.bits, e |-> e, rem |-> f.rem, den |-> Q]

\* The next double up.
Successor(d) ==
    IF \A i \in 1..Len(d.m) : d.m[i] = 1
    THEN [m |-> [i \in 1..Len(d.m) |-> IF i = 1 THEN 1 ELSE 0], e |-> d.e + 1]
    ELSE LET z == CHOOSE i \in 1..Len(d.m) :
                      d.m[i] = 0 /\ \A j \in (i + 1)..Len(d.m) : d.m[j] = 1
         IN  [m |-> [i \in 1..Len(d.m) |->
                        IF i < z THEN d.m[i] ELSE IF i = z THEN 1 ELSE 0],
              e |-> d.e]

\* Round to nearest, ties to even: d is the value cut to 53 bits, guard the
\* next bit, sticky whether anything follows it.
RoundToNearest(d, guard, sticky) ==
    IF guard = 1 /\ (sticky \/ d.m[Len(d.m)] = 1) THEN Successor(d) ELSE d

\* The double nearest to p/q (p, q > 0): what p / q evaluates to when p and
\* q are exactly representable.
Double(p, q) ==
    LET x == Only({Expansion(p, q)})
    IN  RoundToNearest([m |-> x.m, e |-> x.e],
                       IF 2 * x.rem >= x.den THEN 1 ELSE 0,
                       2 * x.rem # x.den /\ x.rem # 0)

\* Long division of a bit sequence by n, from remainder r: the quotient bits
\* appended to acc, and the remainder.
RECURSIVE DivideBits(_, _, _, _)
DivideBits(bits, n, r, acc) ==
    IF bits = <<>> THEN [bits |-> acc, rem |-> r]
    ELSE DivideBits(Tail(bits), n, (2 * r + Head(bits)) % n,
                    Append(acc, (2 * r + Head(bits)) \div n))

\* d / n for a double d and a small positive integer n, rounded to nearest.
DivideDouble(d, n) ==
    LET pad == 8
        q == Only({DivideBits(d.m \o [i \in 1..pad |-> 0], n, 0, <<>>)})
        lead == CHOOSE i \in 1..Len(q.bits) :
                    q.bits[i] = 1 /\ \A j \in 1..(i - 1) : q.bits[j] = 0
        after == lead + MantissaBits
    IN  RoundToNearest(
            [m |-> SubSeq(q.bits, lead, after - 1), e |-> d.e - (lead - 1)],
            q.bits[after],
            q.rem # 0 \/ \E i \in (after + 1)..Len(q.bits) : q.bits[i] = 1)

\* -1, 0 or 1 as the double d is below, equal to or above p/q.
CompareDouble(d, p, q) ==
    LET x == Only({Expansion(p, q)})
    IN  IF d.e # x.e THEN (IF d.e < x.e THEN -1 ELSE 1)
        ELSE IF d.m = x.m THEN (IF x.rem = 0 THEN 0 ELSE -1)
        ELSE LET i == CHOOSE i \in 1..Len(d.m) :
                          d.m[i] # x.m[i] /\ \A j \in 1..(i - 1) : d.m[j] = x.m[j]
             IN  IF d.m[i] < x.m[i] THEN -1 ELSE 1

\* round(d, 2) cutting the digits after the second instead.
round2_down(d, p, q) == (100 * p) \div q

\* round(d, 2) in hundredths, for a double d within a few units in the last
\* place of p/q: the nearest hundredth to d's exact binary value, a tie going
\* to the even hundredth.
round2(d, p, q) ==
    LET n == (100 * p) \div q
        side == IF 200 * p # (2 * n + 1) * q
                THEN (IF 200 * p < (2 * n + 1) * q THEN -1 ELSE 1)
                ELSE CompareDouble(d, 2 * n + 1, 200)
    IN  IF side < 0 THEN n
        ELSE IF side > 0 THEN n + 1
        ELSE IF n % 2 = 0 THEN n ELSE n + 1

\* c in binary, most significant bit first (no bits for 0).
RECURSIVE BinaryOf(_)
BinaryOf(c) == IF c = 0 THEN <<>> ELSE BinaryOf(c \div 2) \o <<c % 2>>

\* bits times n, from the last bit on: acc holds the product's low bits.
RECURSIVE MultiplyBits(_, _, _, _)
MultiplyBits(bits, n, carry, acc) ==
    IF bits = <<>> THEN BinaryOf(carry) \o acc
    ELSE MultiplyBits(SubSeq(bits, 1, Len(bits) - 1), n,
                      (bits[Len(bits)] * n + carry) \div 2,
                      <<(bits[Len(bits)] * n + carry) % 2>> \o acc)

\* d * n for a double d and a small positive integer n, rounded to nearest.
MultiplyDouble(d, n) ==
    LET b == Only({MultiplyBits(d.m, n, 0, <<>>)})
    IN  RoundToNearest(
            [m |-> SubSeq(b, 1, MantissaBits), e |-> d.e + (Len(b) - MantissaBits)],
            IF Len(b) > MantissaBits THEN b[MantissaBits + 1] ELSE 0,
            \E i \in (MantissaBits + 2)..Len(b) : b[i] = 1)

\* -1, 0 or 1 as h / 100 * 100 in doubles is below, equal to or above h
\* (0.29 * 100 is 28.999999999999996, 0.07 * 100 is 7.000000000000001).
RECURSIVE TimesHundred(_)
TimesHundred(h) ==
    IF h = 0 THEN 0
    ELSE IF h < 0 THEN 0 - TimesHundred(0 - h)
    ELSE CompareDouble(MultiplyDouble(Double(h, 100), 100), h, 1)

---------------------------------------------------------------------------
(* RedTeamingAgent's threshold check and result summary.                  *)

\* The comparison on the exact values of the two numbers.
exceeds_exactly(asr, asr_threshold) ==
    IF "special" \in DOMAIN asr_threshold THEN asr_threshold.special = "-inf"
    ELSE asr.v > asr_threshold.v * 100

\* asr > (self.config.asr_threshold * 100) (line 211): asr in hundredths of
\* a percent, the threshold a fraction in hundredths, or inf or nan.  Both
\* sides are doubles: when they stand for the same number, the product
\* decides.
exceeds(asr, asr_threshold) ==
    IF "special" \in DOMAIN asr_threshold THEN asr_threshold.special = "-inf"
    ELSE IF asr.v = asr_threshold.v * 100 THEN TimesHundred(asr_threshold.v) < 0
    ELSE asr.v > asr_threshold.v * 100

\* _display_results_summary (lines 194-219): what it prints, the warnings
\* it emits and the files it leaves.  An exception of any step ends in its
\* except clause, which logs it.
display_results_summary(cfg, res, now, fs, open_ok) ==
    Only({IF summary.k = "raise"
          THEN [printed |-> <<>>, warnings |-> <<>>, files |-> fs, error |-> TRUE]
          ELSE IF saved.out.k = "raise"
          THEN [printed |-> <<summary.v>>, warnings |-> <<>>, files |-> saved.files,
                error |-> TRUE]
          ELSE IF asr.k = "raise"
          THEN [printed |-> <<summary.v>>, warnings |-> <<>>, files |-> saved.files,
                error |-> TRUE]
          ELSE IF exceeds(asr.v, cfg.asr_threshold)
          THEN [printed |-> <<summary.v>>,
                warnings |-> <<[asr |-> asr.v, asr_threshold |-> cfg.asr_threshold]>>,
                files |-> saved.files, error |-> FALSE]
          ELSE [printed |-> <<summary.v>>, warnings |-> <<>>, files |-> saved.files,
                error |-> FALSE] :
             summary \in {generate_summary_report(res)},
             saved \in {save_summary_report(res, PyNone, now, fs, open_ok)},
             asr \in {calculate_asr(res)}})

\* ', '.join(x) succeeds: x is a list or a tuple of str.
Joinable(x) ==
    x.t \in {"list", "tuple"} /\ \A i \in 1..Len(x.v) : x.v[i].t \in {"chars", "str"}

\* What a scan that never reached the engine leaves behind.
NoScan(exc, fs) ==
    [out |-> Raise(exc), requests |-> <<>>, warnings |-> <<>>, files |-> fs,
     displayed |-> FALSE]

\* The try block with an error of the summary step left to reach it.
scan_try_unconfined(cfg, ag, op, target, o, engine_out, now, fs, open_ok) ==
    LET num_objectives == Or(o.num_objectives, cfg.num_objectives)
        risk_categories == Or(o.risk_categories, cfg.risk_categories)
        attack_strategies == Or(Or(o.attack_strategies, cfg.attack_strategies), PyNone)
        request == [op |-> op, target |-> target,
                    num_objectives |-> num_objectives,
                    risk_categories |-> risk_categories,
                    attack_strategies |-> attack_strategies,
                    output_path |-> o.output_filename]
    IN  IF op = "scan_with_model_config" /\ ~IsDict(target)
        THEN NoScan("AttributeError", fs)
        ELSE IF ~Joinable(risk_categories) THEN NoScan("TypeError", fs)
        ELSE IF ag.red_team_agent = PyNone THEN NoScan("AttributeError", fs)
        ELSE IF engine_out.k = "raise"
        THEN [out |-> engine_out, requests |-> <<request>>, warnings |-> <<>>,
              files |-> fs, displayed |-> FALSE]
        ELSE Only({[out |-> IF d.error THEN Raise("OSError") ELSE engine_out,
                    requests |-> <<request>>,
                    warnings |-> d.warnings, files |-> d.files, displayed |-> TRUE] :
                      d \in {display_results_summary(cfg, engine_out.v, now, fs,
                                                      open_ok)}})

\* The try block of scan_with_callback (lines 108-134) and of
\* scan_with_model_config (lines 162-188), which differ in the target and in
\* model_config.get of line 167.  o holds the caller's overrides (None: left
\* out), engine_out is what the engine's scan does when it is called.
scan_try(cfg, ag, op, target, o, engine_out, now, fs, open_ok) ==
    LET num_objectives == Or(o.num_objectives, cfg.num_objectives)
        risk_categories == Or(o.risk_categories, cfg.risk_categories)
        attack_strategies == Or(Or(o.attack_strategies, cfg.attack_strategies), PyNone)
        request == [op |-> op, target |-> target,
                    num_objectives |-> num_objectives,
                    risk_categories |-> risk_categories,
                    attack_strategies |-> attack_strategies,
                    output_path |-> o.output_filename]
    IN  IF op = "scan_with_model_config" /\ ~IsDict(target)
        THEN NoScan("AttributeError", fs)
        ELSE IF ~Joinable(risk_categories) THEN NoScan("TypeError", fs)
        ELSE IF ag.red_team_agent = PyNone THEN NoScan("AttributeError", fs)
        ELSE IF engine_out.k = "raise"
        THEN [out |-> engine_out, requests |-> <<request>>, warnings |-> <<>>,
              files |-> fs, displayed |-> FALSE]
        ELSE Only({[out |-> engine_out, requests |-> <<request>>,
                    warnings |-> d.warnings, files |-> d.files, displayed |-> TRUE] :
                      d \in {display_results_summary(cfg, engine_out.v, now, fs,
                                                      open_ok)}})

\* The scan without its except clause.
scan_propagating(cfg, ag, op, target, o, engine_out, now, fs, open_ok) ==
    scan_try(cfg, ag, op, target, o, engine_out, now, fs, open_ok)

\* scan_with_callback and scan_with_model_config: an exception of the try
\* block is logged and None returned (lines 136-138, 190-192).
scan(cfg, ag, op, target, o, engine_out, now, fs, open_ok) ==
    Only({IF r.out.k = "raise" THEN [r EXCEPT !.out = Return(PyNone)] ELSE r :
             r \in {scan_try(cfg, ag, op, target, o, engine_out, now, fs, open_ok)}})

---------------------------------------------------------------------------
(* The orchestrator's configurations, callers and collaborators.           *)

\* An environment with the three required identifiers set.
IdentifiedEnviron ==
    [EmptyEnviron EXCEPT !["AZURE_SUBSCRIPTION_ID"] = PyChars(<<"s">>),
                         !["AZURE_RESOURCE_GROUP"] = PyChars(<<"g">>),
                         !["AZURE_PROJECT_NAME"] = PyChars(<<"p">>)]

\* The Config objects the orchestrator is constructed with: what Config()
\* returns on the defaults, without the identifiers, and with one source of
\* one field changed.
AgentConfigs ==
    {Config_init(i.env, i.file, TRUE).v :
        i \in {[env |-> IdentifiedEnviron, file |-> NoConfigFile],
               [env |-> EmptyEnviron, file |-> NoConfigFile]}
           \cup {[env |-> SetEnv(IdentifiedEnviron, n[1], PyChars(n[2])),
                  file |-> NoConfigFile] :
                    n \in {<<"ATTACK_STRATEGIES", <<"a">>>>,
                           <<"RISK_CATEGORIES", <<"a", ",", "b">>>>,
                           <<"NUM_OBJECTIVES", <<"5">>>>,
                           <<"ASR_THRESHOLD", <<"0", ".", "2", "5">>>>,
                           <<"ASR_THRESHOLD", <<"0", ".", "2", "9">>>>,
                           <<"ASR_THRESHOLD", <<"n", "a", "n">>>>}}
           \cup {[env |-> IdentifiedEnviron,
                  file |-> ConfigFile(Absent, RedTeaming(Absent, r[1], r[2], Absent))] :
                    r \in {<<PyNone, Absent>>, <<Absent, PyList(<<>>)>>}}}

NoOverrides ==
    [num_objectives |-> PyNone, risk_categories |-> PyNone,
     attack_strategies |-> PyNone, output_filename |-> PyNone]

\* The optional arguments of a scan call: none, one of them, or all; an
\* argument is a value, or the zero or empty value of its type.
Overrides ==
    {NoOverrides}
        \cup {[NoOverrides EXCEPT !.num_objectives = PyInt(n)] : n \in {0, 7}}
        \cup {[NoOverrides EXCEPT !.risk_categories = PyList(q)] :
                 q \in {<<>>, <<Chars_x>>}}
        \cup {[NoOverrides EXCEPT !.attack_strategies = PyList(q)] :
                 q \in {<<>>, <<Chars_f>>}}
        \cup {[num_objectives |-> PyInt(7), risk_categories |-> PyList(<<Chars_x>>),
               attack_strategies |-> PyList(<<Chars_f>>),
               output_filename |-> PyStr("scan.json")]}

\* The targets: a callback, a model configuration, and no dict at all.
Callbacks == {[t |-> "callable"]}
ModelConfigs == {MkDict(<< <<"deployment_name", PyStr("gpt-4")>> >>), PyNone}

\* What the engine's scan does: it raises, or it returns a scorecard with an
\* ASR of 29, 25, 20 or 0 percent (no attacks), or something that is no dict.
EngineOutcomes ==
    {Raise("RuntimeError")}
        \cup {Return(MkResults(MkScorecard(PyInt(t[1]), PyInt(t[2]), Absent, Absent),
                               FixtureParameters, PyList(<<>>))) :
                 t \in {<<100, 29>>, <<100, 25>>, <<100, 20>>, <<0, 0>>}}
        \cup {Return(PyNone)}

\* The collaborators of setup: get_azure_credential, RedTeam.
CredentialOutcomes == {Return(PyStr("credential")), Raise("ClientAuthenticationError")}
HandleOutcomes == {Return(PyStr("engine")), Raise("ValueError")}

InitAgent ==
    /\ config \in AgentConfigs
    /\ agent = NewAgent
    /\ engine = <<>>
    /\ warnings = <<>>
    /\ call = NoCall
    /\ results = PyNone
    /\ files = EmptyDir
    /\ clock = 0
    /\ environ = [n \in {} |-> PyNone]
    /\ config_data = PyNone
    /\ NoApp

\* agent.setup()
Setup ==
    \E credential \in CredentialOutcomes, verified \in BOOLEAN,
       handle \in HandleOutcomes :
        LET r == setup(config, agent, credential, verified, handle) IN
        /\ call' = [op |-> "setup", out |-> r.out, steps |-> r.steps,
                    verified |-> Len(r.steps) >= 3 /\ verified]
        /\ agent' = r.agent
        /\ UNCHANGED <<config, engine, warnings, files, clock, results,
                       environ, config_data, appVars>>

\* What varies from one scan call to the next: the caller's overrides on an
\* engine that returns a scorecard, or what the engine does and whether the
\* summary file can be written.
ScanInputs ==
    {[o |-> o, engine_out |-> Return(MkResults(MkScorecard(PyInt(100), PyInt(25),
                                                            Absent, Absent),
                                               FixtureParameters, PyList(<<>>))),
      open_ok |-> TRUE] : o \in Overrides}
        \cup {[o |-> NoOverrides, engine_out |-> e, open_ok |-> w] :
                 e \in EngineOutcomes, w \in BOOLEAN}

\* The record of one scan call.  It holds what the engine did only when the
\* engine was called, and whether the file could be written only when the
\* summary was displayed.
ScanCall(op, target, i, r) ==
    [op |-> op, args |-> <<target, i.o>>, out |-> r.out,
     engine_out |-> IF r.requests = <<>> THEN PyNone ELSE i.engine_out,
     open_ok |-> r.displayed => i.open_ok,
     requests |-> r.requests, warnings |-> r.warnings, displayed |-> r.displayed]

\* await agent.scan_with_callback(target_callback, ...)
ScanWithCallback ==
    \E target \in Callbacks, i \in ScanInputs :
        \E r \in {scan(config, agent, "scan_with_callback", target, i.o,
                       i.engine_out, clock, files, i.open_ok)} :
            /\ Len(engine) < MaxScans
            /\ call' = ScanCall("scan_with_callback", target, i, r)
            /\ engine' = engine \o r.requests
            /\ warnings' = warnings \o r.warnings
            /\ files' = r.files
            /\ UNCHANGED <<config, agent, clock, results, environ, config_data, appVars>>

\* await agent.scan_with_model_config(model_config, ...)
ScanWithModelConfig ==
    \E target \in ModelConfigs, i \in ScanInputs :
        \E r \in {scan(config, agent, "scan_with_model_config", target, i.o,
                       i.engine_out, clock, files, i.open_ok)} :
            /\ Len(engine) < MaxScans
            /\ call' = ScanCall("scan_with_model_config", target, i, r)
            /\ engine' = engine \o r.requests
            /\ warnings' = warnings \o r.warnings
            /\ files' = r.files
            /\ UNCHANGED <<config, agent, clock, results, environ, config_data, appVars>>

NextAgent == Setup \/ ScanWithCallback \/ ScanWithModelConfig

SpecAgent == InitAgent /\ [][NextAgent]_vars

---------------------------------------------------------------------------
(* Properties of RedTeamingAgent.                                          *)

\* The last call was a scan, and it called the engine.
ScanCalled == call.op \in {"scan_with_callback", "scan_with_model_config"}
ReachedEngine == ScanCalled /\ call.requests # <<>>

\* The value a field reaches the engine with, by the rule "the caller's
\* value when one is passed (not None), else the configuration's".
Resolved(override, configured) == IF override # PyNone THEN override ELSE configured

\* C16: in a scan that reaches the engine, num_objectives, risk_categories
\* and attack_strategies each reach it with the caller's value when the
\* caller passed one, whatever the configuration holds, and with the
\* configuration's value when the caller left it out, whatever was passed
\* for the other two.
C16_OverridesResolvedIndependently ==
    ReachedEngine =>
        LET o == call.args[2]
            request == call.requests[1]
        IN  /\ request.num_objectives = Resolved(o.num_objectives, config.num_objectives)
            /\ request.risk_categories = Resolved(o.risk_categories, config.risk_categories)
            /\ request.attack_strategies =
                   Resolved(o.attack_strategies, config.attack_strategies)

\* C17: a scan call never raises; when the engine's scan raises, the call
\* returns None and has called the engine exactly once.
C17_ScanNeverRaisesNorRetries ==
    ScanCalled =>
        /\ call.out.k = "return"
        /\ Len(call.requests) <= 1
        /\ (ReachedEngine /\ call.engine_out.k = "raise") =>
               (call.out = Return(PyNone) /\ Len(call.requests) = 1)

\* A scan whose engine raised RuntimeError returned None after one request.
C17_Witness ==
    /\ ReachedEngine
    /\ call.engine_out = Raise("RuntimeError")
    /\ call.out = Return(PyNone)
    /\ Len(engine) = 1

\* C18: a scan whose engine returned a scorecard has handed it to the
\* results processor when it returns, and whenever the scorecard's ASR
\* exceeds the configured threshold the warning has been emitted by then,
\* also when the summary report file could not be written.
C18_WarningNeverSkipped ==
    (ReachedEngine /\ call.engine_out.k = "return") =>
        /\ call.displayed
        /\ exceeds(calculate_asr(call.engine_out.v).v, config.asr_threshold)
               => Len(call.warnings) = 1

\* C19: after a setup() that returned False the orchestrator holds no engine
\* handle, whatever setup calls came before it.
C19_SetupFailsClosed ==
    (call.op = "setup" /\ call.out = Return(PyBool(FALSE))) =>
        agent.red_team_agent = PyNone

---------------------------------------------------------------------------
(* ScanProfiles (src/src/datasets.py)                                      *)

\* A profile dict (lines 139-209).
Profile(name, num_objectives, risk_categories, attack_strategies, description) ==
    MkDict(<< <<"name", PyStr(name)>>,
              <<"num_objectives", PyInt(num_objectives)>>,
              <<"risk_categories", risk_categories>>,
              <<"attack_strategies", attack_strategies>>,
              <<"description", PyStr(description)>> >>)

\* A list of str.
StrsOf(q) == PyList([i \in 1..Len(q) |-> PyStr(q[i])])

\* RiskCategories.ALL (line 22) and the AttackStrategies groupings that
\* BASIC_SCAN uses (lines 89-90).
RiskCategories_ALL == StrsOf(<<"violence", "sexual", "hate_unfairness", "self_harm">>)
LOW_COMPLEXITY == <<"Base64", "Caesar", "ROT13", "Leetspeak", "Flip">>
MEDIUM_COMPLEXITY == <<"Atbash", "Morse", "CharSwap", "Diacritic", "Tense">>

\* ScanProfiles.BASIC_SCAN (lines 148-154)
BASIC_SCAN ==
    Profile("Basic Scan", 10, RiskCategories_ALL,
            StrsOf(LOW_COMPLEXITY \o MEDIUM_COMPLEXITY),
            "Standard scan with moderate coverage (40 total attacks)")

\* ScanProfiles.get_all_profiles (lines 211-223): the catalog, as <<key,
\* profile>> pairs in the dict's order, the key held as its characters.
get_all_profiles ==
    LET ENCODING_STRATEGIES ==
            <<"AnsiAttack", "AsciiArt", "AsciiSmuggler", "Atbash", "Base64",
              "Binary", "Caesar", "CharacterSpace", "CharSwap", "Diacritic",
              "Flip", "Leetspeak", "Morse", "ROT13", "StringJoin",
              "UnicodeConfusable", "UnicodeSubstitution", "Url">>
        ALL == ENCODING_STRATEGIES \o <<"Jailbreak", "SuffixAppend", "Tense">>
        HIGH_COMPLEXITY ==
            <<"Jailbreak", "AsciiSmuggler", "UnicodeConfusable", "SuffixAppend">>
    IN  << <<<<"q", "u", "i", "c", "k">>,
             Profile("Quick Scan", 5, StrsOf(<<"violence", "sexual">>),
                     StrsOf(LOW_COMPLEXITY),
                     "Fast scan with basic coverage (10 total attacks)")>>,
           <<<<"b", "a", "s", "i", "c">>, BASIC_SCAN>>,
           <<<<"c", "o", "m", "p", "r", "e", "h", "e", "n", "s", "i", "v", "e">>,
             Profile("Comprehensive Scan", 25, RiskCategories_ALL, StrsOf(ALL),
                     "Thorough scan with full coverage (100 total attacks)")>>,
           <<<<"j", "a", "i", "l", "b", "r", "e", "a", "k">>,
             Profile("Jailbreak Focused", 20, RiskCategories_ALL,
                     StrsOf(<<"Jailbreak", "SuffixAppend">>),
                     "Focus on jailbreak and prompt injection attacks")>>,
           <<<<"e", "n", "c", "o", "d", "i", "n", "g">>,
             Profile("Encoding Focused", 15, RiskCategories_ALL,
                     StrsOf(ENCODING_STRATEGIES),
                     "Focus on encoding and obfuscation techniques")>>,
           <<<<"s", "a", "f", "e", "t", "y">>,
             Profile("Safety Critical", 30,
                     StrsOf(<<"violence", "sexual", "self_harm">>),
                     StrsOf(HIGH_COMPLEXITY),
                     "High-severity risks with complex attacks")>>,
           <<<<"p", "r", "o", "d", "u", "c", "t", "i", "o", "n">>,
             Profile("Production Readiness", 50, RiskCategories_ALL, StrsOf(ALL),
                     "Comprehensive pre-deployment scan (200 total attacks)")>>,
           <<<<"c", "o", "m", "p", "l", "i", "a", "n", "c", "e">>,
             Profile("Compliance Scan", 10, RiskCategories_ALL, PyNone,
                     "Minimal compliance testing across all categories")>> >>

\* profiles.get(key, dflt) of the catalog.
profiles_get(key, dflt) ==
    IF \E i \in 1..Len(get_all_profiles) : get_all_profiles[i][1] = key
    THEN get_all_profiles[CHOOSE i \in 1..Len(get_all_profiles) :
                             get_all_profiles[i][1] = key][2]
    ELSE dflt

\* get_profile without .lower().
get_profile_exact(profile_name) ==
    IF profile_name.t # "chars" THEN Raise("AttributeError")
    ELSE Return(profiles_get(profile_name.v, BASIC_SCAN))

\* ScanProfiles.get_profile (lines 225-229)
get_profile(profile_name) ==
    IF profile_name.t # "chars" THEN Raise("AttributeError")
    ELSE Return(profiles_get(lower(profile_name.v), BASIC_SCAN))

\* str.upper() of one character.
upper_char(c) ==
    IF \E i \in 1..Len(LowerCase) : LowerCase[i] = c
    THEN UpperCase[CHOOSE i \in 1..Len(LowerCase) : LowerCase[i] = c]
    ELSE c

\* The names get_profile is called with: every catalog key with at most
\* MaxUpperCase of its letters in upper case, or all of them, and names that
\* are no key.
ProfileNames ==
    {PyChars([i \in 1..Len(get_all_profiles[k][1]) |->
                 IF i \in U THEN upper_char(get_all_profiles[k][1][i])
                 ELSE get_all_profiles[k][1][i]]) :
        k \in 1..Len(get_all_profiles),
        U \in {V \in SUBSET (1..13) : Cardinality(V) <= MaxUpperCase} \cup {1..13}}
        \cup {PyChars(q) : q \in {<<>>, <<"f", "a", "s", "t">>, <<"q", "u", "i", "c">>,
                                  <<"q", "u", "i", "c", "k", " ">>,
                                  <<"B", "A", "S", "I", "C", "S">>,
                                  <<"j", "a", "i", "l", "b", "r", "e", "a", "k", "-",
                                    "f", "o", "c", "u", "s", "e", "d">>}}

InitProfiles ==
    /\ call = NoCall
    /\ results = PyNone
    /\ files = EmptyDir
    /\ clock = 0
    /\ NoConfig
    /\ NoAgent
    /\ NoApp

\* ScanProfiles.get_profile(profile_name)
GetProfile ==
    \E profile_name \in ProfileNames :
        /\ call' = [op |-> "get_profile", args |-> <<profile_name>>,
                    out |-> get_profile(profile_name)]
        /\ UNCHANGED <<results, files, clock, configVars, agentVars, appVars>>

NextProfiles == GetProfile

SpecProfiles == InitProfiles /\ [][NextProfiles]_vars

---------------------------------------------------------------------------
(* Properties of ScanProfiles.                                             *)

\* The catalog as the documentation gives it: key, profile name, objectives.
CatalogKeys ==
    {<<<<"q", "u", "i", "c", "k">>, "Quick Scan", 5>>,
     <<<<"b", "a", "s", "i", "c">>, "Basic Scan", 10>>,
     <<<<"c", "o", "m", "p", "r", "e", "h", "e", "n", "s", "i", "v", "e">>,
       "Comprehensive Scan", 25>>,
     <<<<"j", "a", "i", "l", "b", "r", "e", "a", "k">>, "Jailbreak Focused", 20>>,
     <<<<"e", "n", "c", "o", "d", "i", "n", "g">>, "Encoding Focused", 15>>,
     <<<<"s", "a", "f", "e", "t", "y">>, "Safety Critical", 30>>,
     <<<<"p", "r", "o", "d", "u", "c", "t", "i", "o", "n">>, "Production Readiness", 50>>,
     <<<<"c", "o", "m", "p", "l", "i", "a", "n", "c", "e">>, "Compliance Scan", 10>>}

\* name is key in some letter-casing: the same letters, each in either case.
CasingOf(name, key) ==
    /\ Len(name) = Len(key)
    /\ \A i \in 1..Len(key) :
           \/ name[i] = key[i]
           \/ \E k \in 1..26 : LowerCase[k] = key[i] /\ UpperCase[k] = name[i]

\* C20: get_profile never fails on a name; a name that is a catalog key in
\* any letter-casing gets that key's profile, and a name that is no key in
\* any casing gets what get_profile('basic') returns.
C20_ProfileLookupIgnoresCase ==
    call.op = "get_profile" =>
        /\ call.out.k = "return"
        /\ \A c \in CatalogKeys :
               CasingOf(call.args[1].v, c[1]) =>
                   /\ Get(call.out.v, "name", PyNone) = PyStr(c[2])
                   /\ Get(call.out.v, "num_objectives", PyNone) = PyInt(c[3])
        /\ (\A c \in CatalogKeys : ~CasingOf(call.args[1].v, c[1])) =>
               call.out = get_profile(PyChars(<<"b", "a", "s", "i", "c">>))

\* get_profile('QuIck') returned the quick profile.
C20_Witness ==
    /\ call.op = "get_profile"
    /\ call.args[1] = PyChars(<<"Q", "u", "I", "c", "k">>)
    /\ Get(call.out.v, "name", PyNone) = PyStr("Quick Scan")

---------------------------------------------------------------------------
(* ScanBuilder.estimate_scan_duration (src/src/datasets.py)                *)

MaxCategories == 4

\* round(x, 2) of the quotient x (a double, or zero when s is zero) that
\* stands for s hundredths over den.
round_quotient(x, s, den) == IF s = 0 THEN PyFloat(0) ELSE PyFloat(round2(x, s, den))

\* ScanBuilder.estimate_scan_duration (lines 261-287), for integer counts
\* and a response time that is an int or a float held exactly (a multiple of
\* 0.25), none of them negative.
estimate_scan_duration(num_categories, num_objectives, avg_response_time) ==
    LET total_attacks == num_categories.v * num_objectives.v
        s == total_attacks * NumH(avg_response_time)
        estimated_minutes == IF s = 0 THEN 0 ELSE Only({Double(s, 6000)})
    IN  MkDict(<< <<"total_attacks", PyInt(total_attacks)>>,
                  <<"estimated_seconds",
                    IF avg_response_time.t = "float" THEN PyFloat(s)
                    ELSE PyInt(s \div 100)>>,
                  <<"estimated_minutes", round_quotient(estimated_minutes, s, 6000)>>,
                  <<"estimated_hours",
                    round_quotient(IF s = 0 THEN 0
                                   ELSE DivideDouble(estimated_minutes, 60),
                                   s, 360000)>> >>)

\* The calls made: up to MaxCategories categories, objective counts as the
\* profiles have them and small ones, response times in quarters of a second.
ObjectiveCounts == {0, 1, 3, 5, 9, 10, 15, 20, 25, 27, 30, 50}
ResponseTimes == {PyFloat(h) : h \in {25, 50, 75, 100, 150, 200, 250}} \cup {PyInt(2)}

InitBuilder ==
    /\ call = NoCall
    /\ results = PyNone
    /\ files = EmptyDir
    /\ clock = 0
    /\ NoConfig
    /\ NoAgent
    /\ NoApp

\* ScanBuilder.estimate_scan_duration(num_categories, num_objectives, avg_response_time)
EstimateScanDuration ==
    \E c \in 0..MaxCategories, o \in ObjectiveCounts, avg \in ResponseTimes :
        /\ call' = [op |-> "estimate_scan_duration",
                    args |-> <<PyInt(c), PyInt(o), avg>>,
                    out |-> Return(estimate_scan_duration(PyInt(c), PyInt(o), avg))]
        /\ UNCHANGED <<results, files, clock, configVars, agentVars, appVars>>

NextBuilder == EstimateScanDuration

SpecBuilder == InitBuilder /\ [][NextBuilder]_vars


---------------------------------------------------------------------------
(* Properties of ScanBuilder.estimate_scan_duration.                       *)

\* |x|
Abs(x) == IF x < 0 THEN 0 - x ELSE x

\* The value of a returned number in hundredths, whatever its type.
Hundredths(x) == IF x.t = "int" THEN 100 * x.v ELSE x.v

\* C21: estimate_scan_duration returns total_attacks = num_categories *
\* num_objectives, estimated_seconds = total_attacks * avg, estimated_minutes
\* a hundredth nearest to seconds / 60 and estimated_hours a hundredth
\* nearest to seconds / 3600; for (4, 25, 2.0) these are 100, 200.0, 3.33
\* and 0.06.
C21_DurationIsPureArithmetic ==
    call.op = "estimate_scan_duration" =>
        LET c == call.args[1].v
            o == call.args[2].v
            avg == Hundredths(call.args[3])
            out == call.out.v
        IN  /\ call.out.k = "return"
            /\ Get(out, "total_attacks", PyNone) = PyInt(c * o)
            /\ Hundredths(Get(out, "estimated_seconds", PyNone)) = c * o * avg
            /\ Get(out, "estimated_minutes", PyNone).t = "float"
            /\ 2 * Abs(60 * Get(out, "estimated_minutes", PyNone).v - c * o * avg) <= 60
            /\ Get(out, "estimated_hours", PyNone).t = "float"
            /\ 2 * Abs(3600 * Get(out, "estimated_hours", PyNone).v - c * o * avg) <= 3600
            /\ (c = 4 /\ o = 25 /\ call.args[3] = PyFloat(200)) =>
                   out = MkDict(<< <<"total_attacks", PyInt(100)>>,
                                   <<"estimated_seconds", PyFloat(20000)>>,
                                   <<"estimated_minutes", PyFloat(333)>>,
                                   <<"estimated_hours", PyFloat(6)>> >>)

\* estimate_scan_duration(4, 25, 2.0) returned 100 attacks and 3.33 minutes.
C21_Witness ==
    /\ call.op = "estimate_scan_duration"
    /\ call.args = <<PyInt(4), PyInt(25), PyFloat(200)>>
    /\ Get(call.out.v, "total_attacks", PyNone) = PyInt(100)
    /\ Get(call.out.v, "estimated_minutes", PyNone) = PyFloat(333)


---------------------------------------------------------------------------
(* Properties of the Results Processor's file operations under I/O failure. *)

\* C22: an I/O failure inside save_results, load_results or
\* save_summary_report reaches the caller as that error: a save whose open()
\* fails raises OSError, returns no path and leaves the files as they were
\* (nothing is tried again), and a load of a missing or unreadable file raises
\* FileNotFoundError or OSError.
C22_IoFailurePropagates ==
    [][/\ (call'.op \in {"save_results", "save_summary_report"} /\ ~call'.open_ok)
           => (call'.out = Raise("OSError") /\ files' = files)
       /\ (call'.op = "load_results"
              /\ (~call'.open_ok \/ call'.args[1] \notin DOMAIN files))
           => call'.out \in {Raise("OSError"), Raise("FileNotFoundError")}]_vars

\* A save failed at open() with files already written, and raised OSError.
C22_Witness ==
    /\ call.op \in {"save_results", "save_summary_report"}
    /\ ~call.open_ok
    /\ call.out = Raise("OSError")
    /\ DOMAIN files # {}


\* Config() was called with no environment variable set and no config file.
NothingConfigured ==
    /\ Constructed
    /\ environ = EmptyEnviron
    /\ config_data = NoConfigFile

\* C23: with no relevant environment variable and no config file, Config
\* resolves num_objectives to the int 10, risk_categories to the four default
\* categories (violence among them), log_level to 'INFO' and output_dir to
\* the str 'outputs'.
C23_DefaultsWhenNothingConfigured ==
    NothingConfigured =>
        /\ call.out.v.num_objectives = PyInt(10)
        /\ call.out.v.risk_categories = FourCategories
        /\ call.out.v.log_level = PyChars(<<"I", "N", "F", "O">>)
        /\ call.out.v.output_dir = PyChars(<<"o", "u", "t", "p", "u", "t", "s">>)


\* C24: calculate_asr returns a percentage between 0 and 100 inclusive for
\* every results dictionary it is given.
C24_AsrWithinPercentRange ==
    (call.op = "calculate_asr" /\ IsDict(results)) =>
        /\ call.out.k = "return"
        /\ call.out.v.t = "float"
        /\ 0 <= call.out.v.v
        /\ call.out.v.v <= 10000


---------------------------------------------------------------------------
(* Properties of RedTeamingAgent.setup's order.                            *)

\* The calls of a complete setup, in order.
SetupOrder == <<"validate", "get_azure_credential", "verify_authentication", "RedTeam">>

\* The configuration names a subscription, a resource group and a project.
Identified ==
    /\ Truthy(config.azure_subscription_id)
    /\ Truthy(config.azure_resource_group)
    /\ Truthy(config.azure_project_name)

\* C25: setup() makes its calls in the order validate, get_azure_credential,
\* verify_authentication, RedTeam and stops at the first that fails; RedTeam
\* is called only when the configuration is valid and verify_authentication
\* returned True, and setup() returns True only when that call built the
\* handle the orchestrator now holds.
C25_SetupGatedOrder ==
    call.op = "setup" =>
        /\ call.steps # <<>>
        /\ call.steps = SubSeq(SetupOrder, 1, Len(call.steps))
        /\ call.out \in {Return(PyBool(TRUE)), Return(PyBool(FALSE))}
        /\ Len(call.steps) > 1 => Identified
        /\ Len(call.steps) = 4 => call.verified
        /\ call.out = Return(PyBool(TRUE)) =>
               /\ Len(call.steps) = 4
               /\ agent.red_team_agent # PyNone
               /\ agent.red_team_agent.credential = agent.credential
               /\ agent.red_team_agent.subscription_id = config.azure_subscription_id

\* A setup() went through all four calls and returned True.
C25_Witness ==
    /\ call.op = "setup"
    /\ call.steps = SetupOrder
    /\ call.verified
    /\ call.out = Return(PyBool(TRUE))
    /\ agent.red_team_agent # PyNone


\* C26: while no setup() has succeeded (the handle is set only by a setup()
\* that returns True, so it is still None), every scan call returns None
\* without raising and the engine's scan is never invoked.
C26_NoScanBeforeSuccessfulSetup ==
    [][/\ (agent.red_team_agent = PyNone /\ agent'.red_team_agent # PyNone)
           => (call'.op = "setup" /\ call'.out = Return(PyBool(TRUE)))
       /\ agent'.red_team_agent = PyNone => engine' = <<>>
       /\ (call'.op \in {"scan_with_callback", "scan_with_model_config"}
              /\ agent'.red_team_agent = PyNone)
           => (call'.out = Return(PyNone) /\ call'.requests = <<>>)]_vars

\* A scan was called after a setup() that got a credential but no handle; it
\* returned None and the engine has never been called.
C26_Witness ==
    /\ ScanCalled
    /\ agent.credential # PyNone
    /\ agent.red_team_agent = PyNone
    /\ call.out = Return(PyNone)
    /\ engine = <<>>


\* The configured threshold is a fraction between 0 and 1.
FractionThreshold ==
    /\ "special" \notin DOMAIN config.asr_threshold
    /\ 0 <= config.asr_threshold.v
    /\ config.asr_threshold.v <= 100

\* C27: when the result-summary step runs with a threshold that is a
\* fraction in [0, 1], the warning is emitted exactly when calculate_asr of
\* the scorecard is strictly greater than asr_threshold * 100: never for an
\* ASR equal to the threshold or for zero total attacks, always above it.
C27_WarningExactlyAboveThreshold ==
    (ScanCalled /\ call.displayed /\ FractionThreshold) =>
        (Len(call.warnings) = 1
            <=> calculate_asr(call.engine_out.v).v.v > config.asr_threshold.v * 100)


---------------------------------------------------------------------------
(* function_app.get_red_team_agent (src/src/function_app.py, lines 33-65)  *)
(*                                                                         *)
(* The tool handlers are synchronous functions, which the Functions host   *)
(* runs on a pool of threads: each caller is a thread that goes through    *)
(* get_red_team_agent one read or write of a module-level name at a time.  *)
(* An instance is [running |-> the setup() calls in progress on it,        *)
(* ok |-> whether a setup() on it has returned True].                      *)

MaxCalls == 2
Callers == {"a", "b"}

\* What get_red_team_agent leaves alone.
processorVars == <<results, call, files, clock, configVars, agentVars>>

Instance(id) == [t |-> "RedTeamingAgent", id |-> id]

\* thread t is at pc, holding agent, having returned ret from its last call.
At(t, pc, held, ret) ==
    [threads EXCEPT ![t] = [pc |-> pc, agent |-> held, ret |-> ret, calls |-> @.calls]]

InitApp ==
    /\ _config = PyNone
    /\ _agent = PyNone
    /\ instances = <<>>
    /\ threads = [t \in Callers |->
                      [pc |-> "idle", agent |-> PyNone, ret |-> PyNone, calls |-> 0]]
    /\ call = NoCall
    /\ results = PyNone
    /\ files = EmptyDir
    /\ clock = 0
    /\ NoConfig
    /\ NoAgent

\* A handler calls get_red_team_agent(), at most MaxCalls times on a thread.
GetRedTeamAgent(t) ==
    /\ threads[t].pc = "idle"
    /\ threads[t].calls < MaxCalls
    /\ threads' = [threads EXCEPT ![t] = [pc |-> "line 46", agent |-> PyNone,
                                          ret |-> PyNone, calls |-> @.calls + 1]]
    /\ UNCHANGED <<_config, _agent, instances, processorVars>>

\* if _agent is not None: (line 46)
Line46(t) ==
    /\ threads[t].pc = "line 46"
    /\ threads' = At(t, IF _agent # PyNone THEN "line 47" ELSE "line 50", PyNone, PyNone)
    /\ UNCHANGED <<_config, _agent, instances, processorVars>>

\* return _agent (line 47)
Line47(t) ==
    /\ threads[t].pc = "line 47"
    /\ threads' = At(t, "idle", PyNone, _agent)
    /\ UNCHANGED <<_config, _agent, instances, processorVars>>

\* if _config is None: _config = Config() (lines 50-51); Config() may raise,
\* which the except clause turns into return None (lines 63-65).
Line50(t) ==
    /\ threads[t].pc = "line 50"
    /\ \E constructed \in BOOLEAN :
           IF _config # PyNone
           THEN threads' = At(t, "line 53", PyNone, PyNone) /\ UNCHANGED _config
           ELSE IF constructed
           THEN threads' = At(t, "line 53", PyNone, PyNone) /\ _config' = [t |-> "Config"]
           ELSE threads' = At(t, "idle", PyNone, PyNone) /\ UNCHANGED _config
    /\ UNCHANGED <<_agent, instances, processorVars>>

\* _agent = RedTeamingAgent(_config) (line 53); the constructor makes the
\* output directory and may raise.
Line53(t) ==
    /\ threads[t].pc = "line 53"
    /\ \E constructed \in BOOLEAN :
           IF constructed
           THEN /\ instances' = Append(instances, [running |-> 0, ok |-> FALSE])
                /\ _agent' = Instance(Len(instances) + 1)
                /\ threads' = At(t, "line 55", PyNone, PyNone)
           ELSE /\ threads' = At(t, "idle", PyNone, PyNone)
                /\ UNCHANGED <<_agent, instances>>
    /\ UNCHANGED <<_config, processorVars>>

\* _agent.setup() is entered (line 55) on the instance _agent names now;
\* on None it raises AttributeError, which ends in return None.
Line55(t) ==
    /\ threads[t].pc = "line 55"
    /\ IF _agent = PyNone
       THEN threads' = At(t, "idle", PyNone, PyNone) /\ UNCHANGED instances
       ELSE /\ threads' = At(t, "setup", _agent, PyNone)
            /\ instances' = [instances EXCEPT ![_agent.id].running = @ + 1]
    /\ UNCHANGED <<_config, _agent, processorVars>>

\* setup() returns True or False; a handle it has built stays.
SetupReturns(t) ==
    /\ threads[t].pc = "setup"
    /\ \E ok \in BOOLEAN :
           /\ instances' = [instances EXCEPT ![threads[t].agent.id] =
                                [running |-> @.running - 1, ok |-> @.ok \/ ok]]
           /\ threads' = At(t, IF ok THEN "line 61" ELSE "line 57", PyNone, PyNone)
    /\ UNCHANGED <<_config, _agent, processorVars>>

\* _agent = None; return None (lines 57-58)
Line57(t) ==
    /\ threads[t].pc = "line 57"
    /\ _agent' = PyNone
    /\ threads' = At(t, "idle", PyNone, PyNone)
    /\ UNCHANGED <<_config, instances, processorVars>>

\* return _agent (line 61)
Line61(t) ==
    /\ threads[t].pc = "line 61"
    /\ threads' = At(t, "idle", PyNone, _agent)
    /\ UNCHANGED <<_config, _agent, instances, processorVars>>

NextApp ==
    \E t \in Callers :
        \/ GetRedTeamAgent(t)
        \/ Line46(t)
        \/ Line47(t)
        \/ Line50(t)
        \/ Line53(t)
        \/ Line55(t)
        \/ SetupReturns(t)
        \/ Line57(t)
        \/ Line61(t)

SpecApp == InitApp /\ [][NextApp]_vars


---------------------------------------------------------------------------
(* Properties of get_red_team_agent.                                       *)

\* C28: under every interleaving of its callers, get_red_team_agent returns
\* None or an agent on which a setup() has completed successfully.
C28_OnlySetUpAgentReturned ==
    \A t \in DOMAIN threads :
        (threads[t].pc = "idle" /\ threads[t].ret # PyNone)
            => instances[threads[t].ret.id].ok


\* C29: a scan whose engine call returned returns exactly what the engine
\* returned, also when the summary step failed to save its report: the
\* summary step's errors stay inside it.
C29_SummaryFailureKeepsScorecard ==
    (ReachedEngine /\ call.engine_out.k = "return") =>
        /\ call.displayed
        /\ call.out = call.engine_out

\* The engine returned a scorecard, the summary report could not be saved,
\* and the scan returned the scorecard.
C29_Witness ==
    /\ ReachedEngine
    /\ call.displayed
    /\ ~call.open_ok
    /\ IsDict(call.engine_out.v)
    /\ call.out = call.engine_out
    /\ DOMAIN files = {}


---------------------------------------------------------------------------
(* The Results Processor's derivation methods are read-only.               *)

\* What the method named op answers on res now.
AnswerNow(op, args, res) ==
    CASE op = "calculate_asr" -> calculate_asr(res)
      [] op = "generate_summary_report" -> generate_summary_report(res)
      [] op = "get_high_risk_findings" ->
             get_high_risk_findings(res, IF args[2] = Absent THEN DefaultThreshold
                                         ELSE args[2])

===========================================================================
